---- MODULE Spec2Model ----
(***************************************************************************)
(* The trace parser worker (workers/traceParser.ts), the index functions   *)
(* (lib/traceIndex.ts) and the App's end of the worker channel (App.tsx)   *)
(* of the StScan analysis UI.                                              *)
(*                                                                         *)
(* A string that is a path is modelled as the sequence of its "/"-separated*)
(* segments: "src/main.go" is <<"src", "main.go">>, "." is <<".">>, the    *)
(* empty string is <<"">> (one empty segment) and "/a" is <<"", "a">>.     *)
(* The encoding is one-to-one, so lastIndexOf("/"), slice and split act on *)
(* the segments.  An absent (undefined) path is the empty sequence.        *)
(***************************************************************************)
EXTENDS Integers, Sequences, FiniteSets, TLC

VARIABLES
    inbox,      \* requests posted to the worker and not yet received
    pc,         \* position of the worker's onmessage handler
    request,    \* payload.type of the request the handler is serving
    fileLabel,  \* parseJSONL's fileLabel: "A" or "B"
    held,       \* the handler's indexA while file B is ingested: None or Some(index)
    lines,      \* the lines of the file the loop of parseJSONL has read so far
    total,      \* lines.length of the file being ingested
    i,          \* the loop index of parseJSONL
    nodes,      \* parseJSONL's nodes: path -> TreeNode
    counts,     \* parseJSONL's counts
    firstPass,  \* the nodes as they were when the first copy of a replayed list ended
    posted,     \* messages the worker posted and the App has not yet received
    indexA,     \* App state: None or Some(index)
    indexB,     \* App state: None or Some(index)
    error,      \* App state: None or Some(message)
    progress,   \* App state: None or Some(progress)
    compareMode,\* App state (persisted): compare mode is on
    fileA,      \* App state: a file is held as trace A
    fileB,      \* App state: a file is held as trace B
    expandedIds,  \* App state (persisted): the ids of expandedIds, as the set
                  \* expandedSet the App reads them through
    showExcluded, \* App state (persisted)
    search,       \* App state: the text of the search box, a sequence of characters
    orderBy,      \* App state (persisted): "scan", "alpha" or "cost"
    costMetric,   \* App state (persisted): "total" or "ignored"
    awaiting,     \* the calls of self.onmessage that await file.text(), by file
    submitted,    \* the number of files the user has dropped so far
    written,          \* scanner: the events out.emit has written, in order
    ignoredParent,    \* scanner: walkTrace's ignoredParent, NoPath for ""
    normalizedLookup, \* scanner: rc.normalizedLookup, normalized path -> path
    included,         \* scanner: walkTrace's included
    ignored,          \* scanner: walkTrace's ignored
    matcher,          \* scanner: what MatchWithPattern returns, by normalized path
    rc,               \* scanner: runConfig (autoNormalize, includeMode)
    build,            \* scanner: the platform the scanner is built for
    walking,          \* scanner: the paths ffs.Walk has yet to visit, in order
    reading           \* scanner: the directory ffs.Walk lists next, or NoPath

vars == <<inbox, pc, request, fileLabel, held, lines, total, i, nodes, counts,
          firstPass, posted, indexA, indexB, error, progress, compareMode,
          fileA, fileB, expandedIds, showExcluded, search, orderBy, costMetric,
          awaiting, submitted, written, ignoredParent, normalizedLookup, included,
          ignored, matcher, rc, build, walking, reading>>

\* The App state that only the tree view reads.
view == <<expandedIds, showExcluded, search, orderBy, costMetric>>

\* The requests in flight, which only the steps of SpecAbandon change.
flight == <<awaiting, submitted>>

\* The state of the scanner, which the UI never reads: the UI reads a trace
\* file.
scanner == <<written, ignoredParent, normalizedLookup, included, ignored, matcher,
             rc, build, walking, reading>>

----------------------------------------------------------------------------
(* Bounds of the model. *)

MaxLines == 3

MaxReplay == 2

MaxCompareLines == 2

MaxViewLines == 3
\* The longest file of the compared tree views, in lines.
MaxCompareViewLines == 2
\* The longest file of the ordered tree views, in lines.
MaxOrderLines == 3
\* The longest file of the sibling orders, in lines.
MaxSiblingLines == 4
\* The most files the user drops one after the other.
MaxFiles == 3
\* The longest file of the tree views with a stored view state, in lines.
MaxStoredLines == 3

----------------------------------------------------------------------------
(* Values. *)

Undef == "undefined"

None == <<>>

Some(x) == <<x>>

NoPath == <<>>

EmptyStr == <<"">>

ROOT_ID == <<".">>

ProgressEvery == 5000

Statuses == {"unknown", "included", "ignored", "skipped"}

----------------------------------------------------------------------------
(* traceParser.ts: the helpers of the index builder. *)

toParentPath(path) ==
    IF path = ROOT_ID THEN EmptyStr
    ELSE IF Len(path) = 1 THEN ROOT_ID
    ELSE LET front == SubSeq(path, 1, Len(path) - 1)
         IN  IF front = EmptyStr THEN ROOT_ID ELSE front

nameOf(path) ==
    IF path = ROOT_ID THEN ROOT_ID
    ELSE IF path[Len(path)] = "" THEN path
    ELSE <<path[Len(path)]>>

newNode(path, kind) ==
    [id |-> path, name |-> nameOf(path), path |-> path, kind |-> kind,
     meta |-> [status |-> "unknown", reason |-> Undef, pattern |-> Undef,
               kind |-> Undef, lastEvent |-> Undef],
     children |-> <<>>]

\* ensureNode that gives an existing node the kind it is called with.
ensureNodeAssignsKind(ns, path, k) ==
    LET kind == IF k = Undef THEN "dir" ELSE k
    IN  IF path \in DOMAIN ns
        THEN [ns EXCEPT ![path].kind = kind]
        ELSE (path :> newNode(path, kind)) @@ ns

\* Returns the node map; the node the code returns is the entry at path.
\* An undefined kind takes the parameter's default, "dir".
ensureNode(ns, path, k) ==
    LET kind == IF k = Undef THEN "dir" ELSE k
    IN  IF path \in DOMAIN ns
        THEN IF kind = "dir" /\ ns[path].kind # "dir"
             THEN [ns EXCEPT ![path].kind = "dir"]
             ELSE ns
        ELSE (path :> newNode(path, kind)) @@ ns

includes(seq, x) == \E k \in 1..Len(seq) : seq[k] = x

\* linkParent without the includes test of line 94.
linkParentNoDedup(ns, childPath) ==
    LET parentPath == toParentPath(childPath)
    IN  IF parentPath = EmptyStr THEN ns
        ELSE LET ns1 == ensureNode(ns, parentPath, "dir")
             IN  [ns1 EXCEPT ![parentPath].children = Append(@, childPath)]

\* linkParent that lists every child under the root.
linkParentToRoot(ns, childPath) ==
    LET parentPath == IF toParentPath(childPath) = EmptyStr THEN EmptyStr ELSE ROOT_ID
    IN  IF parentPath = EmptyStr THEN ns
        ELSE LET ns1 == ensureNode(ns, parentPath, "dir")
             IN  IF includes(ns1[parentPath].children, childPath)
                 THEN ns1
                 ELSE [ns1 EXCEPT ![parentPath].children = Append(@, childPath)]

linkParent(ns, childPath) ==
    LET parentPath == toParentPath(childPath)
    IN  IF parentPath = EmptyStr THEN ns
        ELSE LET ns1 == ensureNode(ns, parentPath, "dir")
             IN  IF includes(ns1[parentPath].children, childPath)
                 THEN ns1
                 ELSE [ns1 EXCEPT ![parentPath].children = Append(@, childPath)]

\* normalizePath that leaves a leading "./" in place.
normalizePathNoStrip(raw) ==
    IF raw = NoPath \/ raw = EmptyStr THEN ROOT_ID
    ELSE IF raw = ROOT_ID THEN ROOT_ID
    ELSE raw

normalizePath(raw) ==
    IF raw = NoPath \/ raw = EmptyStr THEN ROOT_ID
    ELSE IF raw = ROOT_ID THEN ROOT_ID
    ELSE IF Len(raw) >= 2 /\ raw[1] = "." THEN Tail(raw)
    ELSE raw

\* updateMeta whose error case leaves the pattern of an earlier event.
updateMetaErrorKeepsPattern(node, event) ==
    LET n1 == [node EXCEPT !.meta.lastEvent = event.event]
    IN  CASE event.event = "include" ->
               [n1 EXCEPT !.meta.status = "included", !.meta.kind = event.kind,
                          !.meta.reason = Undef, !.meta.pattern = Undef]
          [] event.event = "ignore" ->
               [n1 EXCEPT !.meta.status = "ignored", !.meta.reason = event.reason,
                          !.meta.pattern = event.pattern]
          [] event.event = "skip" ->
               [n1 EXCEPT !.meta.status = "skipped", !.meta.reason = event.reason,
                          !.meta.pattern = event.pattern]
          [] event.event = "temp" ->
               IF n1.meta.status = "unknown"
               THEN [n1 EXCEPT !.meta.status = "ignored", !.meta.reason = "temporary"]
               ELSE n1
          [] event.event = "error" ->
               [n1 EXCEPT !.meta.status = "ignored", !.meta.reason = "error"]
          [] event.event = "enter" ->
               IF n1.kind # "dir" THEN [n1 EXCEPT !.kind = "dir"] ELSE n1
          [] OTHER -> n1

\* updateMeta whose temp case lacks the test of line 129.
updateMetaTempOverrides(node, event) ==
    LET n1 == [node EXCEPT !.meta.lastEvent = event.event]
    IN  CASE event.event = "include" ->
               [n1 EXCEPT !.meta.status = "included", !.meta.kind = event.kind,
                          !.meta.reason = Undef, !.meta.pattern = Undef]
          [] event.event = "ignore" ->
               [n1 EXCEPT !.meta.status = "ignored", !.meta.reason = event.reason,
                          !.meta.pattern = event.pattern]
          [] event.event = "skip" ->
               [n1 EXCEPT !.meta.status = "skipped", !.meta.reason = event.reason,
                          !.meta.pattern = event.pattern]
          [] event.event = "temp" ->
               [n1 EXCEPT !.meta.status = "ignored", !.meta.reason = "temporary"]
          [] event.event = "error" ->
               [n1 EXCEPT !.meta.status = "ignored", !.meta.reason = "error",
                          !.meta.pattern = Undef]
          [] event.event = "enter" ->
               IF n1.kind # "dir" THEN [n1 EXCEPT !.kind = "dir"] ELSE n1
          [] OTHER -> n1

updateMeta(node, event) ==
    LET n1 == [node EXCEPT !.meta.lastEvent = event.event]
    IN  CASE event.event = "include" ->
               [n1 EXCEPT !.meta.status = "included", !.meta.kind = event.kind,
                          !.meta.reason = Undef, !.meta.pattern = Undef]
          [] event.event = "ignore" ->
               [n1 EXCEPT !.meta.status = "ignored", !.meta.reason = event.reason,
                          !.meta.pattern = event.pattern]
          [] event.event = "skip" ->
               [n1 EXCEPT !.meta.status = "skipped", !.meta.reason = event.reason,
                          !.meta.pattern = event.pattern]
          [] event.event = "temp" ->
               IF n1.meta.status = "unknown"
               THEN [n1 EXCEPT !.meta.status = "ignored", !.meta.reason = "temporary"]
               ELSE n1
          [] event.event = "error" ->
               [n1 EXCEPT !.meta.status = "ignored", !.meta.reason = "error",
                          !.meta.pattern = Undef]
          [] event.event = "enter" ->
               IF n1.kind # "dir" THEN [n1 EXCEPT !.kind = "dir"] ELSE n1
          [] OTHER -> n1

kindOf(event) ==
    IF event.event = "include" THEN event.kind
    ELSE IF event.event = "enter" \/ event.event = "skip" THEN "dir"
    ELSE "file"

\* addCount that counts error events with the skipped ones.
addCountErrorSkipped(cs, event) ==
    IF event.event = "include"
    THEN [cs EXCEPT !.included = @ + 1]
    ELSE IF event.event = "ignore" \/ event.event = "temp"
    THEN [cs EXCEPT !.ignored = @ + 1]
    ELSE IF event.event = "skip" \/ event.event = "error"
    THEN [cs EXCEPT !.skipped = @ + 1]
    ELSE cs

\* addCount that leaves temp events out of the ignored count.
addCountNoTemp(cs, event) ==
    IF event.event = "include"
    THEN [cs EXCEPT !.included = @ + 1]
    ELSE IF event.event = "ignore" \/ event.event = "error"
    THEN [cs EXCEPT !.ignored = @ + 1]
    ELSE IF event.event = "skip"
    THEN [cs EXCEPT !.skipped = @ + 1]
    ELSE cs

addCount(cs, event) ==
    IF event.event = "include"
    THEN [cs EXCEPT !.included = @ + 1]
    ELSE IF event.event = "ignore" \/ event.event = "temp" \/ event.event = "error"
    THEN [cs EXCEPT !.ignored = @ + 1]
    ELSE IF event.event = "skip"
    THEN [cs EXCEPT !.skipped = @ + 1]
    ELSE cs

\* applyEvent without the call of linkParent.
applyEventUnlinked(ns, path, event) ==
    LET ns1 == ensureNode(ns, path, kindOf(event))
    IN  [ns1 EXCEPT ![path] = updateMeta(ns1[path], event)]

\* Lines 183-185: the node of the event's path, its link and its new meta.
applyEvent(ns, path, event) ==
    LET ns1 == ensureNode(ns, path, kindOf(event))
        ns2 == linkParent(ns1, path)
    IN  [ns2 EXCEPT ![path] = updateMeta(ns2[path], event)]

----------------------------------------------------------------------------
(* The lines a trace file is made of (types/trace.ts, and what JSON.parse  *)
(* makes of a line).  form is "blank" (empty after trim), "invalid"        *)
(* (JSON.parse throws), "null" (the JSON literal null) or "record" (a JSON *)
(* object, with the fields it carries; Undef for a field it lacks).        *)

Line(form, event, path, kind, reason, pattern) ==
    [form |-> form, event |-> event, path |-> path, kind |-> kind,
     reason |-> reason, pattern |-> pattern]

Rec(event, path, kind, reason, pattern) ==
    Line("record", event, path, kind, reason, pattern)

BlankLine == Line("blank", Undef, NoPath, Undef, Undef, Undef)

InvalidLine == Line("invalid", Undef, NoPath, Undef, Undef, Undef)

NullLine == Line("null", Undef, NoPath, Undef, Undef, Undef)

SummaryLine == Rec("summary", NoPath, Undef, Undef, Undef)

MainGo == <<"src", "main.go">>

NodeModules == <<"node_modules">>

Src == <<"src">>

Deep == <<"src", "lib", "x.go">>

Pat == "**/node_modules"

DecisionPaths == {MainGo, NodeModules}

DecisionLines ==
    UNION {{Rec("include", p, "file", Undef, Undef),
            Rec("ignore", p, Undef, "pattern", Pat),
            Rec("ignore", p, Undef, "internal", Undef),
            Rec("skip", p, Undef, "pattern", Pat),
            Rec("temp", p, Undef, Undef, Undef),
            Rec("error", p, Undef, Undef, Undef),
            Rec("enter", p, Undef, Undef, Undef)} : p \in DecisionPaths}

Lines ==
    DecisionLines
      \cup {Rec("include", Deep, "file", Undef, Undef),
            Rec("enter", Src, Undef, Undef, Undef)}
      \cup {BlankLine, InvalidLine, NullLine, SummaryLine}

----------------------------------------------------------------------------
(* Messages between the App and the worker. *)

ParseRequest == [type |-> "parse"]

CompareRequest == [type |-> "parse-compare"]

DecodeError(lineNo) ==
    [type |-> "error", message |-> <<"Failed to parse JSON on line", lineNo>>]

ThrownError == [type |-> "error", message |-> <<"TypeError">>]

ProgressMsg(lbl, processed, tot) ==
    [type |-> "progress", fileLabel |-> lbl, processed |-> processed, total |-> tot]

ResultMsg(index) == [type |-> "result", index |-> index]

ResultCompareMsg(a, b) == [type |-> "result-compare", indexA |-> a, indexB |-> b]

ZeroCounts == [included |-> 0, ignored |-> 0, skipped |-> 0]

NoNodes == <<>>

----------------------------------------------------------------------------
(* App.tsx *)

\* The App as first rendered: no file dropped yet.
Mounted ==
    /\ inbox = <<>> /\ pc = "idle" /\ posted = <<>>
    /\ indexA = None /\ indexB = None /\ error = None /\ progress = None

deserializeIndex(serialized) ==
    [rootId |-> serialized.rootId,
     nodes  |-> [key \in DOMAIN serialized.nodes |->
                   [serialized.nodes[key] EXCEPT
                      !.children = [k \in 1..Len(@) |-> @[k]]]],
     counts |-> serialized.counts]

\* FileDropZone onFile outside compare mode: setError(null), handleSingleFile.
handleSingleFile ==
    /\ Mounted
    /\ ~compareMode
    /\ error' = None
    /\ inbox' = Append(inbox, ParseRequest)
    /\ UNCHANGED <<pc, request, fileLabel, held, lines, total, i, nodes, counts,
                   firstPass, posted, indexA, indexB, progress, compareMode,
                   fileA, fileB>>
    /\ UNCHANGED <<view, flight, scanner>>

\* handleCompareFiles(nextA, nextB): posts when both files are there.
handleCompareFiles(nextA, nextB) ==
    inbox' = IF compareMode /\ nextA /\ nextB
             THEN Append(inbox, CompareRequest)
             ELSE inbox

\* FileDropZone "Trace A" onFile in compare mode: setError(null),
\* setFileA(file), handleCompareFiles(file, fileB).
dropTraceA ==
    /\ Mounted
    /\ compareMode
    /\ error' = None
    /\ fileA' = TRUE
    /\ handleCompareFiles(TRUE, fileB)
    /\ UNCHANGED <<pc, request, fileLabel, held, lines, total, i, nodes, counts,
                   firstPass, posted, indexA, indexB, progress, compareMode,
                   fileB>>
    /\ UNCHANGED <<view, flight, scanner>>

\* FileDropZone "Trace B" onFile: setError(null), setFileB(file),
\* handleCompareFiles(fileA, file).
dropTraceB ==
    /\ Mounted
    /\ compareMode
    /\ error' = None
    /\ fileB' = TRUE
    /\ handleCompareFiles(fileA, TRUE)
    /\ UNCHANGED <<pc, request, fileLabel, held, lines, total, i, nodes, counts,
                   firstPass, posted, indexA, indexB, progress, compareMode,
                   fileA>>
    /\ UNCHANGED <<view, flight, scanner>>

\* The effect of lines 340-352, which runs when activeIndex or
\* expandedIds.length has changed and an index is shown: no expanded id
\* makes the root the one expanded id.
expandRootIfNone(ids, rootId) == IF ids = {} THEN {rootId} ELSE ids

\* worker.onmessage of the App: one message of the worker is received; with
\* a result the index shown changes and the effect of lines 340-352 runs.
AppOnMessage ==
    /\ posted # <<>>
    /\ LET msg == Head(posted)
       IN  CASE msg.type = "progress" ->
                  /\ progress' = Some([fileLabel |-> msg.fileLabel,
                                       processed |-> msg.processed,
                                       total |-> msg.total])
                  /\ UNCHANGED <<indexA, indexB, error>>
             [] msg.type = "error" ->
                  /\ error' = Some(msg.message)
                  /\ progress' = None
                  /\ UNCHANGED <<indexA, indexB>>
             [] msg.type = "result" ->
                  /\ indexA' = Some(deserializeIndex(msg.index))
                  /\ indexB' = None
                  /\ progress' = None
                  /\ error' = None
             [] msg.type = "result-compare" ->
                  /\ indexA' = Some(deserializeIndex(msg.indexA))
                  /\ indexB' = Some(deserializeIndex(msg.indexB))
                  /\ progress' = None
                  /\ error' = None
    /\ expandedIds' = IF Head(posted).type \in {"result", "result-compare"}
                      THEN expandRootIfNone(expandedIds, ROOT_ID)
                      ELSE expandedIds
    /\ posted' = Tail(posted)
    /\ UNCHANGED <<inbox, pc, request, fileLabel, held, lines, total, i, nodes,
                   counts, firstPass, compareMode, fileA, fileB, showExcluded,
                   search, orderBy, costMetric, awaiting, submitted, scanner>>

----------------------------------------------------------------------------
(* traceParser.ts: self.onmessage and parseJSONL. *)

\* self.onmessage receives a request and calls parseJSONL, which awaits file.text().
onmessage ==
    /\ inbox # <<>>
    /\ pc \in {"idle", "returned", "threw"}
    /\ Head(inbox).type \in {"parse", "parse-compare"}
    /\ inbox' = Tail(inbox)
    /\ request' = Head(inbox).type
    /\ fileLabel' = "A"
    /\ held' = None
    /\ pc' = "text"
    /\ UNCHANGED <<lines, total, i, nodes, counts, firstPass, posted,
                   indexA, indexB, error, progress, compareMode, fileA, fileB>>
    /\ UNCHANGED <<view, flight, scanner>>

\* file.text() resolves with a text of n lines (split gives at least one):
\* lines 151-157.
startParse(n) ==
    /\ pc = "text"
    /\ total' = n
    /\ lines' = <<>>
    /\ i' = 0
    /\ nodes' = ensureNode(NoNodes, ROOT_ID, "dir")
    /\ counts' = ZeroCounts
    /\ pc' = "loop"
    /\ UNCHANGED <<inbox, request, fileLabel, held, posted, indexA, indexB, error,
                   progress, compareMode, fileA, fileB>>
    /\ UNCHANGED <<view, flight, scanner>>

\* parseLine without the test for summary records: the record goes on to
\* normalizePath like any other.
parseLineFoldsSummary(ln) ==
    /\ pc = "loop"
    /\ i < total
    /\ lines' = Append(lines, ln)
    /\ IF ln.form = "blank" THEN
          /\ i' = i + 1
          /\ UNCHANGED <<pc, nodes, counts, posted>>
       ELSE IF ln.form = "invalid" THEN
          /\ posted' = Append(posted, DecodeError(i + 1))
          /\ i' = i + 1
          /\ UNCHANGED <<pc, nodes, counts>>
       ELSE IF ln.form = "null" THEN
          /\ posted' = Append(posted, ThrownError)
          /\ pc' = "threw"
          /\ UNCHANGED <<i, nodes, counts>>
       ELSE LET path == normalizePath(ln.path)
            IN  IF path = EmptyStr THEN
                   /\ i' = i + 1
                   /\ UNCHANGED <<pc, nodes, counts, posted>>
                ELSE
                   /\ nodes' = applyEvent(nodes, path, ln)
                   /\ counts' = addCount(counts, ln)
                   /\ posted' = IF i % ProgressEvery = 0
                                THEN Append(posted, ProgressMsg(fileLabel, i, total))
                                ELSE posted
                   /\ i' = i + 1
                   /\ UNCHANGED pc
    /\ UNCHANGED <<inbox, request, fileLabel, held, total, indexA, indexB, error,
                   progress, compareMode, fileA, fileB>>
    /\ UNCHANGED <<view, flight, scanner>>

\* One iteration of the loop of parseJSONL on the line ln (lines 158-198).
\* The TypeError of reading a field of null is not caught in parseJSONL: it
\* rejects the promise, and the catch of self.onmessage posts it (217-219).
parseLine(ln) ==
    /\ pc = "loop"
    /\ i < total
    /\ lines' = Append(lines, ln)
    /\ IF ln.form = "blank" THEN
          /\ i' = i + 1
          /\ UNCHANGED <<pc, nodes, counts, posted>>
       ELSE IF ln.form = "invalid" THEN
          /\ posted' = Append(posted, DecodeError(i + 1))
          /\ i' = i + 1
          /\ UNCHANGED <<pc, nodes, counts>>
       ELSE IF ln.form = "null" THEN
          /\ posted' = Append(posted, ThrownError)
          /\ pc' = "threw"
          /\ UNCHANGED <<i, nodes, counts>>
       ELSE IF ln.event = "summary" THEN
          /\ i' = i + 1
          /\ UNCHANGED <<pc, nodes, counts, posted>>
       ELSE LET path == normalizePath(ln.path)
            IN  IF path = EmptyStr THEN
                   /\ i' = i + 1
                   /\ UNCHANGED <<pc, nodes, counts, posted>>
                ELSE
                   /\ nodes' = applyEvent(nodes, path, ln)
                   /\ counts' = addCount(counts, ln)
                   /\ posted' = IF i % ProgressEvery = 0
                                THEN Append(posted, ProgressMsg(fileLabel, i, total))
                                ELSE posted
                   /\ i' = i + 1
                   /\ UNCHANGED pc
    /\ UNCHANGED <<inbox, request, fileLabel, held, total, indexA, indexB, error,
                   progress, compareMode, fileA, fileB>>
    /\ UNCHANGED <<view, flight, scanner>>

\* The loop ends, parseJSONL returns the index and self.onmessage posts it
\* (lines 200, 207-209).
parseReturn ==
    /\ pc = "loop"
    /\ i = total
    /\ request = "parse"
    /\ posted' = Append(posted, ResultMsg([rootId |-> ROOT_ID, nodes |-> nodes,
                                           counts |-> counts]))
    /\ pc' = "returned"
    /\ UNCHANGED <<inbox, request, fileLabel, held, lines, total, i, nodes, counts,
                   firstPass, indexA, indexB, error, progress, compareMode,
                   fileA, fileB>>
    /\ UNCHANGED <<view, flight, scanner>>

\* parseReturnA that posts the index of file A as a result before it goes
\* on with file B.
parseReturnAPostsResult ==
    /\ pc = "loop"
    /\ i = total
    /\ request = "parse-compare"
    /\ fileLabel = "A"
    /\ held' = Some([rootId |-> ROOT_ID, nodes |-> nodes, counts |-> counts])
    /\ posted' = Append(posted, ResultMsg([rootId |-> ROOT_ID, nodes |-> nodes,
                                           counts |-> counts]))
    /\ fileLabel' = "B"
    /\ pc' = "text"
    /\ UNCHANGED <<inbox, request, lines, total, i, nodes, counts, firstPass,
                   indexA, indexB, error, progress, compareMode, fileA, fileB>>
    /\ UNCHANGED <<view, flight, scanner>>

\* A parse-compare request: the loop over file A ends, parseJSONL returns
\* indexA and self.onmessage calls parseJSONL(fileB, "B"), which awaits
\* fileB.text() (lines 200, 212-213).
parseReturnA ==
    /\ pc = "loop"
    /\ i = total
    /\ request = "parse-compare"
    /\ fileLabel = "A"
    /\ held' = Some([rootId |-> ROOT_ID, nodes |-> nodes, counts |-> counts])
    /\ fileLabel' = "B"
    /\ pc' = "text"
    /\ UNCHANGED <<inbox, request, lines, total, i, nodes, counts, firstPass,
                   posted, indexA, indexB, error, progress, compareMode,
                   fileA, fileB>>
    /\ UNCHANGED <<view, flight, scanner>>

\* A parse-compare request: the loop over file B ends and self.onmessage
\* posts both indices (lines 200, 213-215).
parseReturnB ==
    /\ pc = "loop"
    /\ i = total
    /\ request = "parse-compare"
    /\ fileLabel = "B"
    /\ posted' = Append(posted,
                        ResultCompareMsg(held[1], [rootId |-> ROOT_ID,
                                                   nodes |-> nodes,
                                                   counts |-> counts]))
    /\ pc' = "returned"
    /\ UNCHANGED <<inbox, request, fileLabel, held, lines, total, i, nodes, counts,
                   firstPass, indexA, indexB, error, progress, compareMode,
                   fileA, fileB>>
    /\ UNCHANGED <<view, flight, scanner>>

----------------------------------------------------------------------------
(* parseJSONL as a function of the whole list of lines: what the loop      *)
(* leaves in nodes and counts, and whether it threw.                       *)

RECURSIVE parseLoop(_, _, _)

\* The loop of lines 158-198 from line k on; acc is [threw, nodes, counts].
parseLoop(ls, k, acc) ==
    IF k > Len(ls) THEN acc
    ELSE LET ln == ls[k]
         IN  IF ln.form = "blank" \/ ln.form = "invalid"
             THEN parseLoop(ls, k + 1, acc)
             ELSE IF ln.form = "null"
             THEN [acc EXCEPT !.threw = TRUE]
             ELSE IF ln.event = "summary"
             THEN parseLoop(ls, k + 1, acc)
             ELSE LET path == normalizePath(ln.path)
                  IN  IF path = EmptyStr
                      THEN parseLoop(ls, k + 1, acc)
                      ELSE parseLoop(ls, k + 1,
                               [acc EXCEPT !.nodes = applyEvent(@, path, ln),
                                           !.counts = addCount(@, ln)])

parseJSONL(ls) ==
    parseLoop(ls, 1, [threw |-> FALSE,
                      nodes |-> ensureNode(NoNodes, ROOT_ID, "dir"),
                      counts |-> ZeroCounts])

\* No scan runs beside the UI.
NoScan ==
    /\ written = <<>>
    /\ ignoredParent = NoPath
    /\ normalizedLookup = <<>>
    /\ included = <<>>
    /\ ignored = <<>>
    /\ matcher = <<>>
    /\ rc = [autoNormalize |-> TRUE, includeMode |-> "all"]
    /\ build = "linux"
    /\ walking = <<>>
    /\ reading = NoPath

----------------------------------------------------------------------------
(* The ingestion of one dropped file; the content of each line is drawn    *)
(* when the loop reads it.                                                 *)

Init ==
    /\ inbox = <<>>
    /\ pc = "idle"
    /\ request = "none"
    /\ fileLabel = "A"
    /\ held = None
    /\ lines = <<>>
    /\ total = 0
    /\ i = 0
    /\ nodes = NoNodes
    /\ counts = ZeroCounts
    /\ firstPass = NoNodes
    /\ posted = <<>>
    /\ indexA = None
    /\ indexB = None
    /\ error = None
    /\ progress = None
    /\ compareMode = FALSE
    /\ fileA = FALSE
    /\ fileB = FALSE
    /\ expandedIds = {}
    /\ showExcluded = TRUE
    /\ search = <<>>
    /\ orderBy = "scan"
    /\ costMetric = "total"
    /\ awaiting = {}
    /\ submitted = 0
    /\ NoScan

fileText == \E n \in 1..MaxLines : startParse(n) /\ UNCHANGED firstPass

readLine == \E ln \in Lines : parseLine(ln) /\ UNCHANGED firstPass

Next ==
    \/ handleSingleFile
    \/ onmessage
    \/ fileText
    \/ readLine
    \/ parseReturn
    \/ AppOnMessage

Spec == Init /\ [][Next]_vars

----------------------------------------------------------------------------
(* The ingestion of a file that is a list of lines followed by the same    *)
(* list again: the first half is drawn as it is read, the second half      *)
(* repeats it.  firstPass keeps the nodes as the first half left them.     *)

fileTextReplay ==
    \E n \in 1..MaxReplay : startParse(2 * n) /\ UNCHANGED firstPass

replayLine ==
    /\ pc = "loop"
    /\ i < total
    /\ \E ln \in (IF i < total \div 2 THEN Lines ELSE {lines[i - (total \div 2) + 1]}) :
          parseLine(ln)
    /\ firstPass' = IF i' = total \div 2 /\ i' # i THEN nodes' ELSE firstPass

NextReplay ==
    \/ handleSingleFile
    \/ onmessage
    \/ fileTextReplay
    \/ replayLine
    \/ parseReturn
    \/ AppOnMessage

SpecReplay == Init /\ [][NextReplay]_vars

----------------------------------------------------------------------------
(* The ingestion of one dropped file whose lines vary the spelling of the  *)
(* path, the kind an include carries and the event tag.                    *)

DotMainGo == <<".", "src", "main.go">>

DotSlash == <<".", "">>

EventLines ==
    {Rec("include", MainGo, "file", Undef, Undef),
     Rec("include", MainGo, "symlink", Undef, Undef),
     Rec("include", MainGo, "dir", Undef, Undef),
     Rec("ignore", MainGo, Undef, "pattern", Pat),
     Rec("temp", MainGo, Undef, Undef, Undef),
     Rec("enter", MainGo, Undef, Undef, Undef),
     Rec("normalize", MainGo, Undef, Undef, Undef),
     Rec("visit", MainGo, Undef, Undef, Undef),
     Rec("enter", Src, Undef, Undef, Undef),
     Rec("include", DotMainGo, "file", Undef, Undef),
     Rec("ignore", DotMainGo, Undef, "internal", Undef),
     Rec("skip", EmptyStr, Undef, "pattern", Pat),
     Rec("include", ROOT_ID, "dir", Undef, Undef),
     Rec("ignore", NoPath, Undef, "internal", Undef),
     Rec("enter", NoPath, Undef, Undef, Undef),
     Rec("enter", DotSlash, Undef, Undef, Undef)}

readEventLine == \E ln \in EventLines : parseLine(ln) /\ UNCHANGED firstPass

NextEvents ==
    \/ handleSingleFile
    \/ onmessage
    \/ fileText
    \/ readEventLine
    \/ parseReturn
    \/ AppOnMessage

SpecEvents == Init /\ [][NextEvents]_vars

----------------------------------------------------------------------------
(* lib/traceIndex.ts: mergeIndexes, and the index the App shows.           *)

\* mergedNode whose primary slot is B's when B has the path.
mergedNodePrimaryFromB(a, b, key) ==
    LET inA  == key \in DOMAIN a.nodes
        inB  == key \in DOMAIN b.nodes
        base == IF inA THEN a.nodes[key] ELSE b.nodes[key]
        prim == IF inB THEN b.nodes[key] ELSE a.nodes[key]
        meta == [status    |-> prim.meta.status,
                 reason    |-> prim.meta.reason,
                 pattern   |-> prim.meta.pattern,
                 kind      |-> base.kind,
                 lastEvent |-> IF inA THEN a.nodes[key].meta.lastEvent ELSE Undef,
                 statusB   |-> IF inB THEN b.nodes[key].meta.status ELSE "unknown",
                 reasonB   |-> IF inB THEN b.nodes[key].meta.reason ELSE Undef,
                 patternB  |-> IF inB THEN b.nodes[key].meta.pattern ELSE Undef]
    IN  [base EXCEPT !.meta = meta]

\* mergedNode that copies the side that has the path into the primary slot.
mergedNodePrimaryFromBase(a, b, key) ==
    LET inA  == key \in DOMAIN a.nodes
        inB  == key \in DOMAIN b.nodes
        base == IF inA THEN a.nodes[key] ELSE b.nodes[key]
        meta == [status    |-> base.meta.status,
                 reason    |-> base.meta.reason,
                 pattern   |-> base.meta.pattern,
                 kind      |-> base.kind,
                 lastEvent |-> IF inA THEN a.nodes[key].meta.lastEvent ELSE Undef,
                 statusB   |-> IF inA /\ inB THEN b.nodes[key].meta.status ELSE "unknown",
                 reasonB   |-> IF inA /\ inB THEN b.nodes[key].meta.reason ELSE Undef,
                 patternB  |-> IF inA /\ inB THEN b.nodes[key].meta.pattern ELSE Undef]
    IN  [base EXCEPT !.meta = meta]

\* The body of the loop over allKeys (lines 24-45): nodeA is a.nodes.get(key),
\* nodeB is b.nodes.get(key), base is nodeA || nodeB; the node is base with
\* the new meta and a copy of base's children.
mergedNode(a, b, key) ==
    LET inA  == key \in DOMAIN a.nodes
        inB  == key \in DOMAIN b.nodes
        base == IF inA THEN a.nodes[key] ELSE b.nodes[key]
        meta == [status    |-> IF inA THEN a.nodes[key].meta.status ELSE "unknown",
                 reason    |-> IF inA THEN a.nodes[key].meta.reason ELSE Undef,
                 pattern   |-> IF inA THEN a.nodes[key].meta.pattern ELSE Undef,
                 kind      |-> base.kind,
                 lastEvent |-> IF inA THEN a.nodes[key].meta.lastEvent ELSE Undef,
                 statusB   |-> IF inB THEN b.nodes[key].meta.status ELSE "unknown",
                 reasonB   |-> IF inB THEN b.nodes[key].meta.reason ELSE Undef,
                 patternB  |-> IF inB THEN b.nodes[key].meta.pattern ELSE Undef]
    IN  [base EXCEPT !.meta = meta]

\* mergeIndexes that walks A's keys only.
mergeIndexesKeysOfA(a, b) ==
    [rootId |-> a.rootId,
     nodes  |-> [key \in DOMAIN a.nodes |-> mergedNode(a, b, key)],
     counts |-> [included |-> a.counts.included + b.counts.included,
                 ignored  |-> a.counts.ignored + b.counts.ignored,
                 skipped  |-> a.counts.skipped + b.counts.skipped]]

\* mergeIndexes that keeps A's counts.
mergeIndexesCountsOfA(a, b) ==
    LET allKeys == DOMAIN a.nodes \cup DOMAIN b.nodes
    IN  [rootId |-> a.rootId,
         nodes  |-> [key \in allKeys |-> mergedNode(a, b, key)],
         counts |-> a.counts]

mergeIndexes(a, b) ==
    LET allKeys == DOMAIN a.nodes \cup DOMAIN b.nodes
    IN  [rootId |-> a.rootId,
         nodes  |-> [key \in allKeys |-> mergedNode(a, b, key)],
         counts |-> [included |-> a.counts.included + b.counts.included,
                     ignored  |-> a.counts.ignored + b.counts.ignored,
                     skipped  |-> a.counts.skipped + b.counts.skipped]]

\* The useMemo of App: None or Some(index).
activeIndex ==
    IF compareMode /\ indexA # None /\ indexB # None
    THEN Some(mergeIndexes(indexA[1], indexB[1]))
    ELSE indexA

----------------------------------------------------------------------------
(* Compare mode: two files are dropped, the worker ingests A and then B    *)
(* and the App shows the merge of the two indices.                         *)

UtilGo == <<"src", "util.go">>

CompareLines ==
    {Rec("include", MainGo, "file", Undef, Undef),
     Rec("ignore", MainGo, Undef, "pattern", Pat),
     Rec("include", UtilGo, "file", Undef, Undef),
     Rec("skip", NodeModules, Undef, "pattern", Pat),
     Rec("enter", Src, Undef, Undef, Undef)}

\* Compare mode was left on in local storage.
InitCompare ==
    /\ inbox = <<>>
    /\ pc = "idle"
    /\ request = "none"
    /\ fileLabel = "A"
    /\ held = None
    /\ lines = <<>>
    /\ total = 0
    /\ i = 0
    /\ nodes = NoNodes
    /\ counts = ZeroCounts
    /\ firstPass = NoNodes
    /\ posted = <<>>
    /\ indexA = None
    /\ indexB = None
    /\ error = None
    /\ progress = None
    /\ compareMode = TRUE
    /\ fileA = FALSE
    /\ fileB = FALSE
    /\ expandedIds = {}
    /\ showExcluded = TRUE
    /\ search = <<>>
    /\ orderBy = "scan"
    /\ costMetric = "total"
    /\ awaiting = {}
    /\ submitted = 0
    /\ NoScan

fileTextCompare ==
    \E n \in 1..MaxCompareLines : startParse(n) /\ UNCHANGED firstPass

readCompareLine ==
    \E ln \in CompareLines : parseLine(ln) /\ UNCHANGED firstPass

NextCompare ==
    \/ dropTraceA
    \/ dropTraceB
    \/ onmessage
    \/ fileTextCompare
    \/ readCompareLine
    \/ parseReturnA
    \/ parseReturnB
    \/ AppOnMessage

SpecCompare == InitCompare /\ [][NextCompare]_vars

----------------------------------------------------------------------------
(* lib/traceIndex.ts: computeSubtreeStats. *)

isDir(node) == node.kind = "dir" \/ Len(node.children) > 0

\* addStats that leaves the skipped count of the child out.
addStatsDropsSkipped(a, b) ==
    [totalNodes |-> a.totalNodes + b.totalNodes,
     totalFiles |-> a.totalFiles + b.totalFiles,
     totalDirs  |-> a.totalDirs + b.totalDirs,
     ignored    |-> a.ignored + b.ignored,
     skipped    |-> a.skipped]

addStats(a, b) ==
    [totalNodes |-> a.totalNodes + b.totalNodes,
     totalFiles |-> a.totalFiles + b.totalFiles,
     totalDirs  |-> a.totalDirs + b.totalDirs,
     ignored    |-> a.ignored + b.ignored,
     skipped    |-> a.skipped + b.skipped]

RECURSIVE walk(_, _), walkChildren(_, _, _, _)

\* walkChildren that counts a child id that is not in the map as one file.
walkChildrenCountsMissing(index, children, k, acc) ==
    IF k > Len(children) THEN acc
    ELSE IF children[k] \notin DOMAIN index.nodes
    THEN walkChildren(index, children, k + 1,
                      [acc EXCEPT !.totalNodes = @ + 1, !.totalFiles = @ + 1])
    ELSE walkChildren(index, children, k + 1,
                      addStats(acc, walk(index, index.nodes[children[k]])))

\* The loop of walk over node.children from position k on (lines 82-93).
walkChildren(index, children, k, acc) ==
    IF k > Len(children) THEN acc
    ELSE IF children[k] \notin DOMAIN index.nodes
    THEN walkChildren(index, children, k + 1, acc)
    ELSE walkChildren(index, children, k + 1,
                      addStats(acc, walk(index, index.nodes[children[k]])))

\* The memo returns what a first visit has computed; the value is the same.
walk(index, node) ==
    walkChildren(index, node.children, 1,
        [totalNodes |-> 1,
         totalFiles |-> IF isDir(node) THEN 0 ELSE 1,
         totalDirs  |-> IF isDir(node) THEN 1 ELSE 0,
         ignored    |-> IF node.meta.status = "ignored" THEN 1 ELSE 0,
         skipped    |-> IF node.meta.status = "skipped" THEN 1 ELSE 0])

computeSubtreeStats(index) ==
    [id \in DOMAIN index.nodes |-> walk(index, index.nodes[id])]

\* One call of computeSubtreeStats: the map it returns and the index as the
\* call leaves it.  The call reads the index with values and get and
\* writes to its own map memo only (lines 67, 96).
computeSubtreeStatsCall(index) ==
    [result |-> computeSubtreeStats(index), index |-> index]

----------------------------------------------------------------------------
(* Strings as the tree view reads them.  A string is the sequence of its   *)
(* characters; the string of a path joins the segments with "/".          *)

UpperCase ==
    <<"A", "B", "C", "D", "E", "F", "G", "H", "I", "J", "K", "L", "M",
      "N", "O", "P", "Q", "R", "S", "T", "U", "V", "W", "X", "Y", "Z">>

LowerCase ==
    <<"a", "b", "c", "d", "e", "f", "g", "h", "i", "j", "k", "l", "m",
      "n", "o", "p", "q", "r", "s", "t", "u", "v", "w", "x", "y", "z">>

toLowerCase(str) ==
    [k \in 1..Len(str) |->
        IF \E j \in 1..26 : UpperCase[j] = str[k]
        THEN LowerCase[CHOOSE j \in 1..26 : UpperCase[j] = str[k]]
        ELSE str[k]]

RECURSIVE trimStart(_), trimEnd(_)

trimStart(str) ==
    IF str # <<>> /\ Head(str) = " " THEN trimStart(Tail(str)) ELSE str

trimEnd(str) ==
    IF str # <<>> /\ str[Len(str)] = " "
    THEN trimEnd(SubSeq(str, 1, Len(str) - 1))
    ELSE str

trim(str) == trimEnd(trimStart(str))

\* String.prototype.includes.
stringIncludes(str, part) ==
    \E k \in 0..(Len(str) - Len(part)) : SubSeq(str, k + 1, k + Len(part)) = part

\* The characters of the segments the traces of the model use.
segmentChars(segment) ==
    CASE segment = "." -> <<".">>
      [] segment = "" -> <<>>
      [] segment = "src" -> <<"s", "r", "c">>
      [] segment = "lib" -> <<"l", "i", "b">>
      [] segment = "main.go" -> <<"m", "a", "i", "n", ".", "g", "o">>
      [] segment = "util.go" -> <<"u", "t", "i", "l", ".", "g", "o">>
      [] segment = "x.go" -> <<"x", ".", "g", "o">>
      [] segment = "a" -> <<"a">>
      [] segment = "b.txt" -> <<"b", ".", "t", "x", "t">>
      [] segment = "c" -> <<"c">>
      [] segment = "d.go" -> <<"d", ".", "g", "o">>
      [] segment = "Makefile" -> <<"M", "a", "k", "e", "f", "i", "l", "e">>
      [] segment = "node_modules" ->
           <<"n", "o", "d", "e", "_", "m", "o", "d", "u", "l", "e", "s">>

RECURSIVE pathString(_)

\* node.path as a string.
pathString(path) ==
    IF Len(path) = 1 THEN segmentChars(path[1])
    ELSE pathString(SubSeq(path, 1, Len(path) - 1))
            \o <<"/">> \o segmentChars(path[Len(path)])

\* The names of the model in the order localeCompare puts them in.
Collation ==
    <<"a", "b.txt", "c", "d.go", "lib", "main.go", "Makefile",
      "node_modules", "src", "util.go", "x.go">>

rank(name) ==
    IF \E k \in 1..Len(Collation) : Collation[k] = name[Len(name)]
    THEN CHOOSE k \in 1..Len(Collation) : Collation[k] = name[Len(name)]
    ELSE 0

\* nameA.localeCompare(nameB): negative, zero or positive.
localeCompare(nameA, nameB) == rank(nameA) - rank(nameB)

----------------------------------------------------------------------------
(* lib/traceIndex.ts: orderChildren; by is its orderBy, metric its         *)
(* costMetric.                                                             *)

\* The test of lines 216-221 that puts a child id into dirs.
isDirLike(index, childId) ==
    \/ childId \notin DOMAIN index.nodes
    \/ index.nodes[childId].kind = "dir"
    \/ index.nodes[childId].meta.status = "skipped"
    \/ Len(index.nodes[childId].children) > 0

nameOrId(index, id) ==
    IF id \in DOMAIN index.nodes THEN index.nodes[id].name ELSE id

compareAlpha(index, a, b) == localeCompare(nameOrId(index, a), nameOrId(index, b))

cost(stats, metric, id) ==
    IF id \in DOMAIN stats
    THEN IF metric = "ignored" THEN stats[id].ignored ELSE stats[id].totalNodes
    ELSE 0

\* compareCost without the alphabetical order of equal costs.
compareCostOnly(index, stats, metric, a, b) ==
    cost(stats, metric, b) - cost(stats, metric, a)

compareCost(index, stats, metric, a, b) ==
    IF cost(stats, metric, a) # cost(stats, metric, b)
    THEN cost(stats, metric, b) - cost(stats, metric, a)
    ELSE compareAlpha(index, a, b)

sortFn(index, by, stats, metric, a, b) ==
    IF by = "alpha" THEN compareAlpha(index, a, b)
    ELSE compareCost(index, stats, metric, a, b)

RECURSIVE sortFrom(_, _, _, _, _, _, _)

\* Array.prototype.sort with sortFn, which is stable: the ids from position
\* k on are put, one after the other, behind the ids of acc that sortFn
\* does not put after them.
sortFrom(ids, k, acc, index, by, stats, metric) ==
    IF k > Len(ids) THEN acc
    ELSE LET x == ids[k]
             n == Cardinality({j \in 1..Len(acc) :
                      sortFn(index, by, stats, metric, acc[j], x) <= 0})
         IN  sortFrom(ids, k + 1,
                      SubSeq(acc, 1, n) \o <<x>> \o SubSeq(acc, n + 1, Len(acc)),
                      index, by, stats, metric)

sort(ids, index, by, stats, metric) ==
    sortFrom(ids, 1, <<>>, index, by, stats, metric)

\* orderChildrenCall that sorts without the split into dirs and files.
orderChildrenCallUnsplit(children, index, by, stats, metric) ==
    [result   |-> IF by = "scan" THEN children
                  ELSE sort(children, index, by, stats, metric),
     children |-> children]

\* orderChildrenCall that sorts the array it is given before it splits it.
orderChildrenCallInPlace(children, index, by, stats, metric) ==
    LET given == IF by = "scan" THEN children
                 ELSE sort(children, index, by, stats, metric)
        dirs  == SelectSeq(given, LAMBDA id : isDirLike(index, id))
        files == SelectSeq(given, LAMBDA id : ~isDirLike(index, id))
    IN  [result |-> dirs \o files, children |-> given]

\* One call of orderChildren: the array it returns and the array children
\* as the call leaves it.  The loop of lines 212-227 reads children and
\* pushes each id to the new array dirs or to the new array files; sort
\* (line 252) reorders dirs and files, and concat makes the result.
orderChildrenCall(children, index, by, stats, metric) ==
    LET dirs  == SelectSeq(children, LAMBDA id : isDirLike(index, id))
        files == SelectSeq(children, LAMBDA id : ~isDirLike(index, id))
    IN  IF by = "scan"
        THEN [result |-> dirs \o files, children |-> children]
        ELSE [result |-> sort(dirs, index, by, stats, metric)
                            \o sort(files, index, by, stats, metric),
              children |-> children]

orderChildren(children, index, by, stats, metric) ==
    orderChildrenCall(children, index, by, stats, metric).result

----------------------------------------------------------------------------
(* lib/traceIndex.ts: buildVisibleList.  env holds what the nested         *)
(* functions read from the enclosing call: index, expanded, showExcluded,  *)
(* query, orderBy, stats and costMetric.                                   *)

hasVisibleStatus(status) == status = "included"

\* node.meta.statusB is undefined in a node that no merge has made.
shouldIncludeNode(env, node) ==
    \/ env.showExcluded
    \/ hasVisibleStatus(node.meta.status)
    \/ /\ "statusB" \in DOMAIN node.meta
       /\ hasVisibleStatus(node.meta.statusB)

matchesSearch(env, node) ==
    \/ env.query = <<>>
    \/ stringIncludes(toLowerCase(pathString(node.path)), env.query)

RECURSIVE computeVisible(_, _)

\* computeVisible that asks for both the match and the node's own status
\* when a search is active.
computeVisibleMatchAndSelf(env, node) ==
    LET childVisible ==
            \E k \in 1..Len(node.children) :
                /\ node.children[k] \in DOMAIN env.index.nodes
                /\ computeVisible(env, env.index.nodes[node.children[k]])
    IN  IF env.query # <<>>
        THEN (matchesSearch(env, node) /\ shouldIncludeNode(env, node)) \/ childVisible
        ELSE shouldIncludeNode(env, node) \/ childVisible

\* What computeVisible returns and caches for node (lines 139-160); the
\* loop asks every child that is in the map.
computeVisible(env, node) ==
    LET childVisible ==
            \E k \in 1..Len(node.children) :
                /\ node.children[k] \in DOMAIN env.index.nodes
                /\ computeVisible(env, env.index.nodes[node.children[k]])
    IN  IF env.query # <<>>
        THEN matchesSearch(env, node) \/ childVisible
        ELSE shouldIncludeNode(env, node) \/ childVisible

\* The row that dims every ignored and skipped node.
rowDimsExcluded(env, node, depth) ==
    [id          |-> node.id,
     depth       |-> depth,
     hasChildren |-> Len(node.children) > 0,
     isExpanded  |-> node.id \in env.expanded,
     dimmed      |-> node.meta.status = "ignored" \/ node.meta.status = "skipped"]

\* The row walk pushes for node (lines 167-178); id stands for the node.
row(env, node, depth) ==
    [id          |-> node.id,
     depth       |-> depth,
     hasChildren |-> Len(node.children) > 0,
     isExpanded  |-> node.id \in env.expanded,
     dimmed      |-> /\ env.showExcluded
                     /\ (node.meta.status = "ignored" \/ node.meta.status = "skipped")]

\* descends that looks at the expanded set only.
descendsIfExpanded(env, node) == node.id \in env.expanded

\* descends that is always true.
descendsAlways(env, node) == TRUE

\* The test of line 180: walk goes on into the children of node.
descends(env, node) == env.query # <<>> \/ node.id \in env.expanded

RECURSIVE walkVisible(_, _, _), walkVisibleEach(_, _, _, _)

\* walkVisibleEach that walks the first of the ordered children only.
walkVisibleEachFirstOnly(env, ids, k, depth) ==
    IF k > Len(ids) \/ k > 1 THEN <<>>
    ELSE IF ids[k] \in DOMAIN env.index.nodes
         THEN walkVisible(env, env.index.nodes[ids[k]], depth)
         ELSE <<>>

\* The loops of lines 182-188 and 195-200 over the ordered children from
\* position k on.
walkVisibleEach(env, ids, k, depth) ==
    IF k > Len(ids) THEN <<>>
    ELSE (IF ids[k] \in DOMAIN env.index.nodes
          THEN walkVisible(env, env.index.nodes[ids[k]], depth)
          ELSE <<>>)
         \o walkVisibleEach(env, ids, k + 1, depth)

\* walk without the test of the cached visibility.
walkVisibleUnchecked(env, node, depth) ==
    <<row(env, node, depth)>>
       \o (IF descends(env, node)
            THEN walkVisibleEach(env,
                     orderChildren(node.children, env.index, env.orderBy,
                                   env.stats, env.costMetric),
                     1, depth + 1)
            ELSE <<>>)

\* walk that pushes the row of a node after the rows of its children.
walkVisibleRowLast(env, node, depth) ==
    IF ~computeVisible(env, node) THEN <<>>
    ELSE (IF descends(env, node)
           THEN walkVisibleEach(env,
                    orderChildren(node.children, env.index, env.orderBy,
                                  env.stats, env.costMetric),
                    1, depth + 1)
           ELSE <<>>)
         \o <<row(env, node, depth)>>

\* The rows walk(node, depth) pushes (lines 162-190).  The cache holds what
\* computeVisible returned for node: walk reaches only nodes that
\* computeVisible(root) has visited.
walkVisible(env, node, depth) ==
    IF ~computeVisible(env, node) THEN <<>>
    ELSE <<row(env, node, depth)>>
            \o (IF descends(env, node)
                 THEN walkVisibleEach(env,
                          orderChildren(node.children, env.index, env.orderBy,
                                        env.stats, env.costMetric),
                          1, depth + 1)
                 ELSE <<>>)

\* What the nested functions of one call read: the parameters, and query
\* (line 121).  text is the parameter search, by is orderBy and metric is
\* costMetric.
buildEnv(index, expanded, showEx, text, by, stats, metric) ==
    [index |-> index, expanded |-> expanded, showExcluded |-> showEx,
     query |-> toLowerCase(trim(text)),
     orderBy |-> by, stats |-> stats, costMetric |-> metric]

\* buildVisibleList that starts its walk with the root itself.
buildVisibleListFromRoot(index, expanded, showEx, text, by, stats, metric) ==
    IF index.rootId \notin DOMAIN index.nodes THEN <<>>
    ELSE walkVisible(buildEnv(index, expanded, showEx, text, by, stats, metric),
                     index.nodes[index.rootId], 0)

buildVisibleList(index, expanded, showEx, text, by, stats, metric) ==
    IF index.rootId \notin DOMAIN index.nodes THEN <<>>
    ELSE LET env == buildEnv(index, expanded, showEx, text, by, stats, metric)
             root == index.nodes[index.rootId]
         IN  walkVisibleEach(env,
                 orderChildren(root.children, index, by, stats, metric), 1, 0)

\* One call of buildVisibleList: the rows it returns, and the index and the
\* set expanded as the call leaves them.  The call reads expanded with has
\* (line 168) and the index with get; the arrays it hands to another
\* function are root.children (line 194) and the children of every node
\* walk pushes a row for and descends into (line 181), each handed to
\* orderChildren.
buildVisibleListCall(index, expanded, showEx, text, by, stats, metric) ==
    LET env    == buildEnv(index, expanded, showEx, text, by, stats, metric)
        rows   == buildVisibleList(index, expanded, showEx, text, by, stats, metric)
        handed == IF index.rootId \notin DOMAIN index.nodes THEN {}
                  ELSE {index.rootId} \cup
                       {rows[k].id : k \in {j \in 1..Len(rows) :
                            descends(env, index.nodes[rows[j].id])}}
    IN  [result   |-> rows,
         index    |-> [index EXCEPT !.nodes =
                         [id \in DOMAIN index.nodes |->
                            IF id \in handed
                            THEN [index.nodes[id] EXCEPT !.children =
                                    orderChildrenCall(index.nodes[id].children,
                                        index, by, stats, metric).children]
                            ELSE index.nodes[id]]],
         expanded |-> expanded]

\* The useMemo values of App (lines 354-380).
subtreeStats ==
    IF activeIndex = None THEN <<>> ELSE computeSubtreeStats(activeIndex[1])

visibleNodes ==
    IF activeIndex = None THEN <<>>
    ELSE buildVisibleList(activeIndex[1], expandedIds, showExcluded, search,
                          orderBy, subtreeStats, costMetric)

----------------------------------------------------------------------------
(* The tree view: a file is ingested and, once its index is shown, the     *)
(* user expands and folds rows, toggles "Show Excluded" and types a        *)
(* search.                                                                 *)

SrcLib == <<"src", "lib">>

Makefile == <<"src", "Makefile">>

ViewLines ==
    {Rec("enter", Src, Undef, Undef, Undef),
     Rec("include", MainGo, "file", Undef, Undef),
     Rec("ignore", Makefile, Undef, "pattern", Pat),
     Rec("enter", SrcLib, Undef, Undef, Undef),
     Rec("include", Deep, "file", Undef, Undef),
     Rec("skip", NodeModules, Undef, "pattern", Pat)}

\* What is typed into the search box: nothing, a blank, "MAIN", "make" and
\* "x.go" followed by a blank.
Searches ==
    {<<>>,
     <<" ">>,
     <<"M", "A", "I", "N">>,
     <<"m", "a", "k", "e">>,
     <<"x", ".", "g", "o", " ">>}

fileTextView == \E n \in 1..MaxViewLines : startParse(n) /\ UNCHANGED firstPass

readViewLine == \E ln \in ViewLines : parseLine(ln) /\ UNCHANGED firstPass

worker == <<inbox, pc, request, fileLabel, held, lines, total, i, nodes,
            counts, firstPass, posted, awaiting>>

loaded == <<indexA, indexB, error, progress, compareMode, fileA, fileB,
            submitted>>

\* toggleExpanded(row.node), from the row's toggle or the arrow keys, both
\* of which need row.hasChildren (lines 408-416, 645-656, 884-893); the
\* effect of lines 340-352 follows.
toggleExpanded ==
    /\ LET rows == visibleNodes
       IN  \E k \in 1..Len(rows) :
             /\ rows[k].hasChildren
             /\ LET id == rows[k].id
                    next == IF id \in expandedIds
                            THEN expandedIds \ {id}
                            ELSE expandedIds \cup {id}
                IN  expandedIds' = expandRootIfNone(next, activeIndex[1].rootId)
    /\ UNCHANGED <<worker, loaded, scanner, showExcluded, search, orderBy, costMetric>>

\* The button "Fold all" (lines 611-616).
foldAll ==
    /\ activeIndex # None
    /\ expandedIds' = {activeIndex[1].rootId}
    /\ UNCHANGED <<worker, loaded, scanner, showExcluded, search, orderBy, costMetric>>

\* The checkbox "Show Excluded" (line 526), once an index is shown.
setShowExcluded ==
    /\ activeIndex # None
    /\ showExcluded' = ~showExcluded
    /\ UNCHANGED <<worker, loaded, scanner, expandedIds, search, orderBy, costMetric>>

\* The search box (line 555), once an index is shown.
setSearch ==
    /\ activeIndex # None
    /\ \E value \in Searches : search' = value
    /\ UNCHANGED <<worker, loaded, scanner, expandedIds, showExcluded, orderBy, costMetric>>

NextView ==
    \/ handleSingleFile
    \/ onmessage
    \/ fileTextView
    \/ readViewLine
    \/ parseReturn
    \/ AppOnMessage
    \/ toggleExpanded
    \/ foldAll
    \/ setShowExcluded
    \/ setSearch

SpecView == Init /\ [][NextView]_vars

----------------------------------------------------------------------------
(* The tree view in compare mode: two files are ingested and the merge of  *)
(* their indices is shown.                                                 *)

CompareViewLines ==
    {Rec("enter", Src, Undef, Undef, Undef),
     Rec("include", MainGo, "file", Undef, Undef),
     Rec("ignore", MainGo, Undef, "pattern", Pat)}

fileTextCompareView ==
    \E n \in 1..MaxCompareViewLines : startParse(n) /\ UNCHANGED firstPass

readCompareViewLine ==
    \E ln \in CompareViewLines : parseLine(ln) /\ UNCHANGED firstPass

\* What the call of buildVisibleList in the useMemo visibleNodes reads.
viewEnv ==
    buildEnv(activeIndex[1], expandedIds, showExcluded, search, orderBy,
             subtreeStats, costMetric)

NextCompareView ==
    \/ dropTraceA
    \/ dropTraceB
    \/ onmessage
    \/ fileTextCompareView
    \/ readCompareViewLine
    \/ parseReturnA
    \/ parseReturnB
    \/ AppOnMessage
    \/ toggleExpanded
    \/ foldAll
    \/ setShowExcluded
    \/ setSearch

SpecCompareView == InitCompare /\ [][NextCompareView]_vars

----------------------------------------------------------------------------
(* The functions of lib/traceIndex.ts on indices that no worker has built: *)
(* mergeIndexes, computeSubtreeStats and buildVisibleList are exported and *)
(* take any TraceIndex.  Two such indices are compared, and the user       *)
(* expands and folds rows, toggles "Show Excluded" and types a search.     *)

\* A TreeNode with a status and a children list.
treeNode(path, kind, status, children) ==
    [newNode(path, kind) EXCEPT !.meta.status = status, !.children = children]

\* src/main.go included and src/Makefile ignored, below the root ".".
PlainIndex ==
    [rootId |-> ROOT_ID,
     nodes  |-> (ROOT_ID :> treeNode(ROOT_ID, "dir", "unknown", <<Src>>))
             @@ (Src :> treeNode(Src, "dir", "unknown", <<MainGo, Makefile>>))
             @@ (MainGo :> treeNode(MainGo, "file", "included", <<>>))
             @@ (Makefile :> treeNode(Makefile, "file", "ignored", <<>>)),
     counts |-> [included |-> 1, ignored |-> 1, skipped |-> 0]]

\* The root lists node_modules, which is not in the map.
DanglingAtRoot ==
    [rootId |-> ROOT_ID,
     nodes  |-> (ROOT_ID :> treeNode(ROOT_ID, "dir", "unknown", <<Src, NodeModules>>))
             @@ (Src :> treeNode(Src, "dir", "unknown", <<MainGo>>))
             @@ (MainGo :> treeNode(MainGo, "file", "included", <<>>)),
     counts |-> [included |-> 1, ignored |-> 0, skipped |-> 0]]

\* src lists src/lib, which is not in the map, before the skipped
\* src/main.go.
DanglingBelow ==
    [rootId |-> ROOT_ID,
     nodes  |-> (ROOT_ID :> treeNode(ROOT_ID, "dir", "unknown", <<Src>>))
             @@ (Src :> treeNode(Src, "dir", "unknown", <<SrcLib, MainGo>>))
             @@ (MainGo :> treeNode(MainGo, "file", "skipped", <<>>)),
     counts |-> [included |-> 0, ignored |-> 0, skipped |-> 1]]

\* An index whose root sentinel is the empty string.
OtherRoot ==
    [rootId |-> EmptyStr,
     nodes  |-> (EmptyStr :> treeNode(EmptyStr, "dir", "unknown", <<Src>>))
             @@ (Src :> treeNode(Src, "dir", "unknown", <<Makefile>>))
             @@ (Makefile :> treeNode(Makefile, "file", "ignored", <<>>)),
     counts |-> [included |-> 0, ignored |-> 1, skipped |-> 0]]

ForeignIndices == {PlainIndex, DanglingAtRoot, DanglingBelow, OtherRoot}

\* Compare mode with two indices set; the effect of lines 340-352 has run.
InitForeign ==
    /\ inbox = <<>>
    /\ pc = "idle"
    /\ request = "none"
    /\ fileLabel = "A"
    /\ held = None
    /\ lines = <<>>
    /\ total = 0
    /\ i = 0
    /\ nodes = NoNodes
    /\ counts = ZeroCounts
    /\ firstPass = NoNodes
    /\ posted = <<>>
    /\ indexA \in {Some(a) : a \in ForeignIndices}
    /\ indexB \in {Some(b) : b \in ForeignIndices}
    /\ error = None
    /\ progress = None
    /\ compareMode = TRUE
    /\ fileA = TRUE
    /\ fileB = TRUE
    /\ expandedIds = expandRootIfNone({}, activeIndex[1].rootId)
    /\ showExcluded = TRUE
    /\ search = <<>>
    /\ orderBy = "scan"
    /\ costMetric = "total"
    /\ awaiting = {}
    /\ submitted = 0
    /\ NoScan

NextForeign ==
    \/ toggleExpanded
    \/ foldAll
    \/ setShowExcluded
    \/ setSearch

SpecForeign == InitForeign /\ [][NextForeign]_vars

----------------------------------------------------------------------------
(* The tree view and its order: a file is ingested and, once its index is  *)
(* shown, the user expands and folds rows, picks an order and a cost       *)
(* metric and types a search.                                              *)

OrderLines ==
    {Rec("enter", Src, Undef, Undef, Undef),
     Rec("include", MainGo, "file", Undef, Undef),
     Rec("ignore", Makefile, Undef, "pattern", Pat),
     Rec("skip", NodeModules, Undef, "pattern", Pat)}

fileTextOrder == \E n \in 1..MaxOrderLines : startParse(n) /\ UNCHANGED firstPass

readOrderLine == \E ln \in OrderLines : parseLine(ln) /\ UNCHANGED firstPass

\* The select "Order by" (line 544), once an index is shown.
setOrderBy ==
    /\ activeIndex # None
    /\ \E value \in {"scan", "cost", "alpha"} : orderBy' = value
    /\ UNCHANGED <<worker, loaded, scanner, expandedIds, showExcluded, search, costMetric>>

\* The select "Cost metric" (line 533), once an index is shown.
setCostMetric ==
    /\ activeIndex # None
    /\ \E value \in {"total", "ignored"} : costMetric' = value
    /\ UNCHANGED <<worker, loaded, scanner, expandedIds, showExcluded, search, orderBy>>

NextOrder ==
    \/ handleSingleFile
    \/ onmessage
    \/ fileTextOrder
    \/ readOrderLine
    \/ parseReturn
    \/ AppOnMessage
    \/ toggleExpanded
    \/ setOrderBy
    \/ setCostMetric
    \/ setSearch

SpecOrder == Init /\ [][NextOrder]_vars

----------------------------------------------------------------------------
(* The order of siblings: a file with entries directly below the root is   *)
(* ingested and, once its index is shown, the user picks an order and a    *)
(* cost metric.                                                            *)

BTxt == <<"b.txt">>

DirA == <<"a">>

DirC == <<"c">>

CDGo == <<"c", "d.go">>

SiblingLines ==
    {Rec("include", BTxt, "file", Undef, Undef),
     Rec("skip", BTxt, Undef, "pattern", Pat),
     Rec("enter", DirA, Undef, Undef, Undef),
     Rec("enter", DirC, Undef, Undef, Undef),
     Rec("ignore", CDGo, Undef, "pattern", Pat)}

fileTextSiblings ==
    \E n \in 1..MaxSiblingLines : startParse(n) /\ UNCHANGED firstPass

readSiblingLine == \E ln \in SiblingLines : parseLine(ln) /\ UNCHANGED firstPass

NextSiblings ==
    \/ handleSingleFile
    \/ onmessage
    \/ fileTextSiblings
    \/ readSiblingLine
    \/ parseReturn
    \/ AppOnMessage
    \/ setOrderBy
    \/ setCostMetric

SpecSiblings == Init /\ [][NextSiblings]_vars

----------------------------------------------------------------------------
(* The tree view with a view state left in local storage by an earlier     *)
(* session: useLocalStorageState (hooks, lines 3-17) reads expandedIds     *)
(* from the storage, and the effect of App lines 340-352 puts the root     *)
(* into expandedIds only when the stored list is empty.                    *)

StoredLines ==
    {Rec("enter", Src, Undef, Undef, Undef),
     Rec("include", MainGo, "file", Undef, Undef),
     Rec("ignore", Makefile, Undef, "pattern", Pat),
     Rec("enter", SrcLib, Undef, Undef, Undef),
     Rec("include", Deep, "file", Undef, Undef)}

\* What an earlier session may have left as expandedIds.
StoredExpanded == {{}, {Src}, {SrcLib}}

InitStored ==
    /\ inbox = <<>>
    /\ pc = "idle"
    /\ request = "none"
    /\ fileLabel = "A"
    /\ held = None
    /\ lines = <<>>
    /\ total = 0
    /\ i = 0
    /\ nodes = NoNodes
    /\ counts = ZeroCounts
    /\ firstPass = NoNodes
    /\ posted = <<>>
    /\ indexA = None
    /\ indexB = None
    /\ error = None
    /\ progress = None
    /\ compareMode = FALSE
    /\ fileA = FALSE
    /\ fileB = FALSE
    /\ expandedIds \in StoredExpanded
    /\ showExcluded = TRUE
    /\ search = <<>>
    /\ orderBy = "scan"
    /\ costMetric = "total"
    /\ awaiting = {}
    /\ submitted = 0
    /\ NoScan

fileTextStored ==
    \E n \in 1..MaxStoredLines : startParse(n) /\ UNCHANGED firstPass

readStoredLine == \E ln \in StoredLines : parseLine(ln) /\ UNCHANGED firstPass

NextStored ==
    \/ handleSingleFile
    \/ onmessage
    \/ fileTextStored
    \/ readStoredLine
    \/ parseReturn
    \/ AppOnMessage
    \/ toggleExpanded
    \/ setShowExcluded

SpecStored == InitStored /\ [][NextStored]_vars

----------------------------------------------------------------------------
(* The ingestion of one dropped file with a line of every event tag for    *)
(* one path, and lines that are no event records.                          *)

CountLines ==
    {Rec("include", MainGo, "file", Undef, Undef),
     Rec("ignore", MainGo, Undef, "pattern", Pat),
     Rec("skip", MainGo, Undef, "pattern", Pat),
     Rec("error", MainGo, Undef, Undef, Undef),
     Rec("temp", MainGo, Undef, Undef, Undef),
     Rec("enter", MainGo, Undef, Undef, Undef),
     Rec("normalize", MainGo, Undef, Undef, Undef),
     SummaryLine, BlankLine, InvalidLine, NullLine}

readCountLine == \E ln \in CountLines : parseLine(ln) /\ UNCHANGED firstPass

NextCounts ==
    \/ handleSingleFile
    \/ onmessage
    \/ fileText
    \/ readCountLine
    \/ parseReturn
    \/ AppOnMessage

SpecCounts == Init /\ [][NextCounts]_vars

----------------------------------------------------------------------------
(* Files dropped one after the other outside compare mode.  Every drop     *)
(* posts a parse request; self.onmessage is async, so that a call that     *)
(* awaits file.text() leaves the worker free to receive the next request   *)
(* and the texts resolve in any order, while the loop of parseJSONL and    *)
(* the post that follows it run without a break.                           *)

\* The n-th file dropped holds the first n of these lines.
FileLines ==
    <<Rec("enter", Src, Undef, Undef, Undef),
      Rec("include", MainGo, "file", Undef, Undef),
      Rec("ignore", Makefile, Undef, "pattern", Pat),
      Rec("skip", NodeModules, Undef, "pattern", Pat)>>

FileText(n) == SubSeq(FileLines, 1, n)

ParseRequestOf(n) == [type |-> "parse", file |-> n]

\* FileDropZone onFile outside compare mode with one more file:
\* setError(null) and handleSingleFile(file), whatever is in flight.
dropFile ==
    /\ ~compareMode
    /\ submitted < MaxFiles
    /\ submitted' = submitted + 1
    /\ error' = None
    /\ inbox' = Append(inbox, ParseRequestOf(submitted + 1))
    /\ UNCHANGED <<pc, request, fileLabel, held, lines, total, i, nodes, counts,
                   firstPass, posted, indexA, indexB, progress, compareMode,
                   fileA, fileB, awaiting>>
    /\ UNCHANGED <<view, scanner>>

\* self.onmessage is called with a parse request while no loop runs; it
\* calls parseJSONL, which awaits file.text() (lines 203-207, 150).
onmessageAwaits ==
    /\ inbox # <<>>
    /\ pc # "loop"
    /\ Head(inbox).type = "parse"
    /\ inbox' = Tail(inbox)
    /\ awaiting' = awaiting \cup {Head(inbox).file}
    /\ UNCHANGED <<pc, request, fileLabel, held, lines, total, i, nodes, counts,
                   firstPass, posted, indexA, indexB, error, progress,
                   compareMode, fileA, fileB, submitted>>
    /\ UNCHANGED <<view, scanner>>

\* The text of one of the awaited files resolves while no loop runs, and
\* parseJSONL goes on to its loop (lines 151-157).
textResolves ==
    /\ pc # "loop"
    /\ \E file \in awaiting :
          /\ awaiting' = awaiting \ {file}
          /\ total' = Len(FileText(file))
    /\ request' = "parse"
    /\ fileLabel' = "A"
    /\ held' = None
    /\ lines' = <<>>
    /\ i' = 0
    /\ nodes' = ensureNode(NoNodes, ROOT_ID, "dir")
    /\ counts' = ZeroCounts
    /\ pc' = "loop"
    /\ UNCHANGED <<inbox, firstPass, posted, indexA, indexB, error, progress,
                   compareMode, fileA, fileB, submitted>>
    /\ UNCHANGED <<view, scanner>>

\* The loop reads the next line of the file, which is the one of total lines.
readFileLine ==
    /\ i < total
    /\ parseLine(FileText(total)[i + 1])
    /\ UNCHANGED firstPass

NextAbandon ==
    \/ dropFile
    \/ onmessageAwaits
    \/ textResolves
    \/ readFileLine
    \/ parseReturn
    \/ AppOnMessage

SpecAbandon == Init /\ [][NextAbandon]_vars

----------------------------------------------------------------------------
(* Notions the properties below are stated with. *)

\* The line reached lines 183-193: it was decoded, is no summary and has a path.
Applied(ln) ==
    /\ ln.form = "record"
    /\ ln.event # "summary"
    /\ normalizePath(ln.path) # EmptyStr

\* The loop has just read a line: the last line of lines'.
ReadStep == pc = "loop" /\ Len(lines') = Len(lines) + 1

LastRead == lines'[Len(lines')]

RECURSIVE Ancestors(_)

\* The directories above a path, up to the root.
Ancestors(path) ==
    IF path = ROOT_ID THEN {}
    ELSE {toParentPath(path)} \cup Ancestors(toParentPath(path))

Occurrences(seq, x) == Cardinality({k \in 1..Len(seq) : seq[k] = x})

ParentsOf(ns, path) == {q \in DOMAIN ns : includes(ns[q].children, path)}

RECURSIVE ReachableFrom(_, _, _)

\* The ids reached from the ids of frontier by following children lists.
ReachableFrom(ns, frontier, seen) ==
    IF frontier = {} THEN seen
    ELSE LET next == {c \in UNION {{ns[q].children[k] : k \in 1..Len(ns[q].children)} :
                                     q \in frontier \cap DOMAIN ns} : c \notin seen}
         IN  ReachableFrom(ns, next, seen \cup next)

IsTree(ns) ==
    /\ ReachableFrom(ns, {ROOT_ID}, {ROOT_ID}) = DOMAIN ns
    /\ ParentsOf(ns, ROOT_ID) = {}
    /\ \A path \in DOMAIN ns \ {ROOT_ID} :
          /\ Cardinality(ParentsOf(ns, path)) = 1
          /\ \A q \in ParentsOf(ns, path) : Occurrences(ns[q].children, path) = 1

Decision(node) ==
    [status |-> node.meta.status, reason |-> node.meta.reason,
     pattern |-> node.meta.pattern]

IsDecision(ln) ==
    Applied(ln) /\ ln.event \in {"include", "ignore", "skip", "error"}

\* The status-assignment table of the four deciding events.
Assigned(ln) ==
    CASE ln.event = "include" ->
           [status |-> "included", reason |-> Undef, pattern |-> Undef]
      [] ln.event = "ignore" ->
           [status |-> "ignored", reason |-> ln.reason, pattern |-> ln.pattern]
      [] ln.event = "skip" ->
           [status |-> "skipped", reason |-> ln.reason, pattern |-> ln.pattern]
      [] ln.event = "error" ->
           [status |-> "ignored", reason |-> "error", pattern |-> Undef]

DecisionsOn(path) ==
    {j \in 1..Len(lines) : IsDecision(lines[j]) /\ normalizePath(lines[j].path) = path}

LastOf(S) == CHOOSE j \in S : \A k \in S : k <= j

EventPaths == {normalizePath(lines[j].path) : j \in {k \in 1..Len(lines) : Applied(lines[k])}}

AppliedWith(tags) ==
    Cardinality({j \in 1..Len(lines) : Applied(lines[j]) /\ lines[j].event \in tags})

ReadmeExample ==
    <<Rec("include", MainGo, "file", Undef, Undef),
      Rec("ignore", NodeModules, Undef, "pattern", Pat),
      Rec("skip", NodeModules, Undef, "pattern", Pat)>>

HeldErrors == IF error = None THEN {} ELSE {error[1]}

----------------------------------------------------------------------------
(* Properties. *)

\* C1: in the node map parseJSONL returns, every node is reachable from the
\* root by children lists along exactly one path: every node but the root is
\* listed once, by one parent, and the lists lead from the root to all nodes.
C1_ReachableOnce == pc = "returned" => IsTree(nodes)

\* C2: after an event is applied, its node and all its ancestor directories
\* up to the root are in the node map, and every node that exists only as a
\* created ancestor is a dir of status unknown listed exactly once in the
\* children of its own parent.
C2_AncestorsMaterialized ==
    /\ \A path \in EventPaths :
          /\ path \in DOMAIN nodes
          /\ Ancestors(path) \subseteq DOMAIN nodes
    /\ \A path \in DOMAIN nodes \ (EventPaths \cup {ROOT_ID}) :
          /\ nodes[path].kind = "dir"
          /\ nodes[path].meta.status = "unknown"
          /\ toParentPath(path) \in DOMAIN nodes
          /\ Occurrences(nodes[toParentPath(path)].children, path) = 1

\* C3: the subtree statistics of the root of the index the App received have
\* totalNodes equal to the number of paths of the node map.
C3_RootTotalNodes ==
    indexA # None =>
        computeSubtreeStats(indexA[1])[indexA[1].rootId].totalNodes
            = Cardinality(DOMAIN indexA[1].nodes)

\* C4: the three lines of the README example give a root with the children
\* src and node_modules, src a dir of status unknown that contains the
\* included main.go, node_modules skipped with reason pattern and pattern
\* **/node_modules, and the counts 1, 1, 1.
C4_ReadmeExample ==
    (pc = "returned" /\ lines = ReadmeExample) =>
        /\ {nodes[ROOT_ID].children[k] : k \in 1..Len(nodes[ROOT_ID].children)}
              = {Src, NodeModules}
        /\ Len(nodes[ROOT_ID].children) = 2
        /\ nodes[Src].kind = "dir"
        /\ nodes[Src].meta.status = "unknown"
        /\ nodes[Src].children = <<MainGo>>
        /\ nodes[MainGo].meta.status = "included"
        /\ Decision(nodes[NodeModules])
              = [status |-> "skipped", reason |-> "pattern", pattern |-> Pat]
        /\ counts = [included |-> 1, ignored |-> 1, skipped |-> 1]

\* C5: for every path that received an include, ignore, skip or error
\* event, the status, reason and pattern of its node are those the table
\* assigns for the last such event of the path, whatever came after it.
C5_LastDecisionWins ==
    \A j \in 1..Len(lines) :
        IsDecision(lines[j]) =>
            LET path == normalizePath(lines[j].path)
            IN  /\ path \in DOMAIN nodes
                /\ Decision(nodes[path]) = Assigned(lines[LastOf(DecisionsOn(path))])

\* A path got two different decisions and then an event of another type.
C5_Witness ==
    /\ Len(lines) = 3
    /\ IsDecision(lines[1]) /\ IsDecision(lines[2])
    /\ Assigned(lines[1]) # Assigned(lines[2])
    /\ Applied(lines[3]) /\ lines[3].event \in {"temp", "enter"}
    /\ lines[1].path = lines[2].path /\ lines[2].path = lines[3].path
    /\ i = 3

\* C6: a temp event gives its node status ignored and reason "temporary"
\* when the node's status is unknown as the event is applied, and leaves
\* status, reason and pattern as they are when it is not.
C6_TempOnlyOnUnknown ==
    [][(ReadStep /\ Applied(LastRead) /\ LastRead.event = "temp") =>
         LET path == normalizePath(LastRead.path)
             before == IF path \in DOMAIN nodes
                       THEN Decision(nodes[path])
                       ELSE Decision(newNode(path, "file"))
             after == Decision(nodes'[path])
         IN  IF before.status = "unknown"
             THEN after.status = "ignored" /\ after.reason = "temporary"
             ELSE after = before]_vars

\* A temp event was applied to an included node and one to a new node.
C6_Witness ==
    /\ MainGo \in DOMAIN nodes /\ NodeModules \in DOMAIN nodes
    /\ nodes[MainGo].meta.lastEvent = "temp"
    /\ nodes[MainGo].meta.status = "included"
    /\ nodes[NodeModules].meta.lastEvent = "temp"
    /\ nodes[NodeModules].meta.status = "ignored"
    /\ nodes[NodeModules].meta.reason = "temporary"

\* C7 as stated: a line adds one to the count of each status category a
\* node moves into, and nothing else.
C7_CountsPerTransition ==
    [][ReadStep =>
         LET entered(c) ==
               IF \E path \in DOMAIN nodes' :
                     /\ nodes'[path].meta.status = c
                     /\ (path \in DOMAIN nodes => nodes[path].meta.status # c)
               THEN 1 ELSE 0
         IN  counts' = [included |-> counts.included + entered("included"),
                        ignored  |-> counts.ignored + entered("ignored"),
                        skipped  |-> counts.skipped + entered("skipped")]]_vars

\* C7 as amended: the counts are the numbers of applied events, whether or
\* not they moved a node into a new status category: included counts the
\* include events, ignored the ignore, temp and error events, skipped the
\* skip events.
C7_CountsPerEvent ==
    counts = [included |-> AppliedWith({"include"}),
              ignored  |-> AppliedWith({"ignore", "temp", "error"}),
              skipped  |-> AppliedWith({"skip"})]

\* A node was ignored, given a temp event that changed nothing, and included.
C7_Witness ==
    /\ Len(lines) = 3 /\ i = 3
    /\ lines[1].event = "ignore" /\ lines[2].event = "temp" /\ lines[3].event = "include"
    /\ lines[1].path = MainGo /\ lines[2].path = MainGo /\ lines[3].path = MainGo
    /\ counts = [included |-> 1, ignored |-> 2, skipped |-> 0]

\* C8: when a list followed by the same list has been ingested, the node map
\* (status, reason, pattern, kind, lastEvent and children of every path) is
\* the one the first copy alone had built.
C8_ReplayIdempotent == pc = "returned" => nodes = firstPass

\* A replayed list with a temp event before the decision on the same path.
C8_Witness ==
    /\ pc = "returned"
    /\ Len(lines) = 4
    /\ lines[1].event = "temp" /\ lines[2].event = "include"
    /\ lines[1].path = MainGo /\ lines[2].path = MainGo
    /\ nodes[Src].children = <<MainGo>>

\* C9: a line that is no decodable event record posts one decode error with
\* its 1-based line number, changes nothing in the index, and the loop goes
\* on with the next line.
C9_MalformedLineSkipped ==
    [][(ReadStep /\ LastRead.form \in {"invalid", "null"}) =>
         /\ posted' = Append(posted, DecodeError(i + 1))
         /\ nodes' = nodes
         /\ counts' = counts
         /\ pc' = "loop"
         /\ i' = i + 1]_vars

\* C10: once the index of an ingestion has been delivered, the App holds the
\* decode error of every malformed line of that ingestion.
C10_DecodeErrorsHeld ==
    indexA # None =>
        \A j \in 1..Len(lines) :
            lines[j].form = "invalid" => DecodeError(j).message \in HeldErrors

\* The stream without its blank lines and its summary records.
Kept(ls) ==
    SelectSeq(ls, LAMBDA ln : ~(ln.form = "blank"
                                \/ (ln.form = "record" /\ ln.event = "summary")))

\* C11: blank lines and summary records are discarded: at every point of
\* the ingestion, and in the index it returns, nodes (children, statuses,
\* kinds) and counts are those parseJSONL builds from the lines read so far
\* with every blank line and every summary record removed, wherever they
\* stood; and the ingestion throws exactly when that of the stripped
\* stream does.
C11_BlankAndSummaryDiscarded ==
    pc \in {"loop", "returned", "threw"} =>
        LET stripped == parseJSONL(Kept(lines))
        IN  /\ stripped.threw = (pc = "threw")
            /\ ~stripped.threw =>
                  /\ nodes = stripped.nodes
                  /\ counts = stripped.counts

\* A summary record first, a blank line second, a deciding event last:
\* the index is returned.
C11_Witness ==
    /\ pc = "returned"
    /\ Len(lines) = 3
    /\ lines[1] = SummaryLine
    /\ lines[2] = BlankLine
    /\ IsDecision(lines[3])
    /\ Len(Kept(lines)) = 1
    /\ nodes[lines[3].path].meta.status # "unknown"

\* The path a written path spells: "" and "." spell the root, "./p" spells p.
Spelled(raw) ==
    IF raw = EmptyStr \/ raw = ROOT_ID THEN ROOT_ID
    ELSE IF Len(raw) >= 2 /\ raw[1] = "." THEN Tail(raw)
    ELSE raw

\* No node is kept under "" or under a "./"-prefixed spelling.
Canonical(path) ==
    path = ROOT_ID \/ (path # EmptyStr /\ path[1] # ".")

C13_KindOnlyUpgraded ==
    [][\A q \in DOMAIN nodes \cap DOMAIN nodes' :
          /\ nodes[q].kind = "dir" => nodes'[q].kind = "dir"
          /\ nodes'[q].kind # nodes[q].kind => nodes'[q].kind = "dir"]_vars

\* src/main.go is created as a file by an ignore event, made a dir by an
\* enter event and is still a dir after an include event that carries
\* another kind.
C13_Witness ==
    /\ i = 3
    /\ lines[1] = Rec("ignore", MainGo, Undef, "pattern", Pat)
    /\ lines[2] = Rec("enter", MainGo, Undef, Undef, Undef)
    /\ lines[3].event = "include"
    /\ lines[3].path = MainGo
    /\ lines[3].kind # "dir"
    /\ nodes[MainGo].kind = "dir"

\* C14: after an include event is applied to a path, the kind of that
\* path's node is the kind the event carries, whether the node is new or
\* existed with another kind.
C14_IncludeSetsKind ==
    [][(ReadStep /\ Applied(LastRead) /\ LastRead.event = "include") =>
          nodes'[normalizePath(LastRead.path)].kind = LastRead.kind]_vars

\* The event tags updateMeta has a status rule for.
StatusTags == {"include", "ignore", "skip", "temp", "error"}

\* C15: an enter event, a normalize event and an event with an unrecognized
\* tag change the status, reason and pattern of no node; the node of their
\* path exists afterwards, a node the step creates has status unknown, the
\* node is listed once among its parent's children, and after an enter
\* event its kind is dir.
C15_NoStatusButLinked ==
    [][(ReadStep /\ Applied(LastRead) /\ LastRead.event \notin StatusTags) =>
          LET p == normalizePath(LastRead.path)
          IN  /\ \A q \in DOMAIN nodes : Decision(nodes'[q]) = Decision(nodes[q])
              /\ \A q \in DOMAIN nodes' \ DOMAIN nodes :
                    Decision(nodes'[q]) =
                        [status |-> "unknown", reason |-> Undef, pattern |-> Undef]
              /\ p \in DOMAIN nodes'
              /\ p # ROOT_ID =>
                    /\ toParentPath(p) \in DOMAIN nodes'
                    /\ Occurrences(nodes'[toParentPath(p)].children, p) = 1
              /\ LastRead.event = "enter" => nodes'[p].kind = "dir"]_vars

\* An event with an unrecognized tag creates src/main.go and links it under
\* src, a normalize event and an enter event follow: the node has no
\* status, is a dir and is a child of src.
C15_Witness ==
    /\ i = 3
    /\ lines[1] = Rec("visit", MainGo, Undef, Undef, Undef)
    /\ lines[2] = Rec("normalize", MainGo, Undef, Undef, Undef)
    /\ lines[3] = Rec("enter", MainGo, Undef, Undef, Undef)
    /\ nodes[MainGo].meta.status = "unknown"
    /\ nodes[MainGo].meta.lastEvent = "enter"
    /\ nodes[MainGo].kind = "dir"
    /\ includes(nodes[Src].children, MainGo)

\* C16: a record whose path field is absent changes the status, reason and
\* pattern of no node, the root included.
C16_AbsentPathNoStatus ==
    [][(ReadStep /\ LastRead.form = "record" /\ LastRead.path = NoPath) =>
          \A q \in DOMAIN nodes : Decision(nodes'[q]) = Decision(nodes[q])]_vars

\* The App holds both indices of a comparison and shows their merge.
Shown == compareMode /\ indexA # None /\ indexB # None

Paths(index) == DOMAIN index.nodes

OnlyIn(x, y) == Paths(x) \ Paths(y)

\* The values a merged node shows for side A and for side B.
Primary(node) ==
    [status |-> node.meta.status, reason |-> node.meta.reason,
     pattern |-> node.meta.pattern]

SlotB(node) ==
    [status |-> node.meta.statusB, reason |-> node.meta.reasonB,
     pattern |-> node.meta.patternB]

Unknown == [status |-> "unknown", reason |-> Undef, pattern |-> Undef]

\* C17: the node set of mergeIndexes(A, B) is the union of A's and B's
\* paths, and mergeIndexes(B, A) has the same node set.
C17_MergeNodeSetIsUnion ==
    Shown =>
        LET a == indexA[1]
            b == indexB[1]
        IN  /\ a.rootId = b.rootId
            /\ Paths(activeIndex[1]) = Paths(a) \cup Paths(b)
            /\ Paths(mergeIndexes(b, a)) = Paths(activeIndex[1])

\* Each side has a path the other side lacks, and they share one besides
\* the root.
C17_Witness ==
    /\ Shown
    /\ OnlyIn(indexA[1], indexB[1]) # {}
    /\ OnlyIn(indexB[1], indexA[1]) # {}
    /\ (Paths(indexA[1]) \cap Paths(indexB[1])) \ {ROOT_ID} # {}

\* C18: for a path present in both A and B, the merged node's status,
\* reason and pattern are A's and its statusB, reasonB and patternB are
\* B's; and when A's and B's statuses of the path differ, mergeIndexes(A, B)
\* and mergeIndexes(B, A) show different primary statuses for it.
C18_SharedPathSlots ==
    Shown =>
        LET a == indexA[1]
            b == indexB[1]
        IN  \A key \in Paths(a) \cap Paths(b) :
                /\ Primary(activeIndex[1].nodes[key]) = Decision(a.nodes[key])
                /\ SlotB(activeIndex[1].nodes[key]) = Decision(b.nodes[key])
                /\ a.nodes[key].meta.status # b.nodes[key].meta.status =>
                      mergeIndexes(a, b).nodes[key].meta.status
                          # mergeIndexes(b, a).nodes[key].meta.status

\* src/main.go is included in A and ignored by a pattern in B.
C18_Witness ==
    /\ Shown
    /\ MainGo \in Paths(indexA[1]) \cap Paths(indexB[1])
    /\ indexA[1].nodes[MainGo].meta.status = "included"
    /\ indexB[1].nodes[MainGo].meta.status = "ignored"
    /\ activeIndex[1].nodes[MainGo].meta.status = "included"
    /\ activeIndex[1].nodes[MainGo].meta.statusB = "ignored"
    /\ activeIndex[1].nodes[MainGo].meta.patternB = Pat

\* C19: for a path present in only one of A and B, whichever, the merged
\* node's status, reason and pattern are that side's, and the slot of the
\* other side is unknown.
C19_OneSidedInPrimary ==
    Shown =>
        LET a == indexA[1]
            b == indexB[1]
        IN  /\ \A key \in OnlyIn(a, b) :
                  /\ Primary(activeIndex[1].nodes[key]) = Decision(a.nodes[key])
                  /\ SlotB(activeIndex[1].nodes[key]) = Unknown
            /\ \A key \in OnlyIn(b, a) :
                  /\ Primary(activeIndex[1].nodes[key]) = Decision(b.nodes[key])
                  /\ activeIndex[1].nodes[key].meta.statusB = "unknown"

\* C19 as the code has it: each side keeps its own slot.  A path only in A
\* has A's values in status, reason and pattern and an unknown B slot; a
\* path only in B has B's values in statusB, reasonB and patternB and an
\* unknown status with no reason and no pattern.
C19_OneSidedInOwnSlot ==
    Shown =>
        LET a == indexA[1]
            b == indexB[1]
        IN  /\ \A key \in OnlyIn(a, b) :
                  /\ Primary(activeIndex[1].nodes[key]) = Decision(a.nodes[key])
                  /\ SlotB(activeIndex[1].nodes[key]) = Unknown
            /\ \A key \in OnlyIn(b, a) :
                  /\ Primary(activeIndex[1].nodes[key]) = Unknown
                  /\ SlotB(activeIndex[1].nodes[key]) = Decision(b.nodes[key])

\* A path with a decision only in A and a path with a decision only in B.
C19_Witness ==
    /\ Shown
    /\ \E key \in OnlyIn(indexA[1], indexB[1]) :
          indexA[1].nodes[key].meta.status # "unknown"
    /\ \E key \in OnlyIn(indexB[1], indexA[1]) :
          /\ indexB[1].nodes[key].meta.status # "unknown"
          /\ activeIndex[1].nodes[key].meta.statusB # "unknown"

\* The children an index lists under a path, as a set.
ChildrenIn(index, key) ==
    IF key \in Paths(index)
    THEN {index.nodes[key].children[k] : k \in 1..Len(index.nodes[key].children)}
    ELSE {}

\* C20: for every path of the merged index, the children list holds each
\* child of the path in A and each child of the path in B, once each.
C20_ChildrenAreUnion ==
    Shown =>
        \A key \in Paths(activeIndex[1]) :
            LET merged == activeIndex[1].nodes[key].children
            IN  /\ ChildrenIn(activeIndex[1], key)
                      = ChildrenIn(indexA[1], key) \cup ChildrenIn(indexB[1], key)
                /\ \A c \in ChildrenIn(activeIndex[1], key) :
                      Occurrences(merged, c) = 1

\* C22: the counts of the merged index are the sums of A's and B's counts,
\* field by field, whatever statuses the merged nodes have.
C22_MergedCountsAreSums ==
    Shown =>
        /\ activeIndex[1].counts.included
              = indexA[1].counts.included + indexB[1].counts.included
        /\ activeIndex[1].counts.ignored
              = indexA[1].counts.ignored + indexB[1].counts.ignored
        /\ activeIndex[1].counts.skipped
              = indexA[1].counts.skipped + indexB[1].counts.skipped

\* src/main.go is included in A and in B: the merged index has the one
\* included node and counts two included; B adds a skipped path.
C22_Witness ==
    /\ Shown
    /\ MainGo \in Paths(indexA[1]) \cap Paths(indexB[1])
    /\ indexA[1].nodes[MainGo].meta.status = "included"
    /\ indexB[1].nodes[MainGo].meta.status = "included"
    /\ indexB[1].counts.skipped = 1
    /\ activeIndex[1].counts.included = 2
    /\ activeIndex[1].counts.skipped = 1
    /\ Cardinality({key \in Paths(activeIndex[1]) :
                       activeIndex[1].nodes[key].meta.status = "included"}) = 1

\* The node and everything below it in the children lists.
Subtree(index, id) == ReachableFrom(index.nodes, {id}, {id})

\* C21: when the root sentinels of the two indices differ the merge fails
\* and there is no composite index to show.
C21_MismatchedRootsFail ==
    (compareMode /\ indexA # None /\ indexB # None
        /\ indexA[1].rootId # indexB[1].rootId)
      => (activeIndex = None /\ error # None)

\* The ids of the rows of the list, in their order.
RowIdsInOrder == LET rows == visibleNodes IN [k \in 1..Len(rows) |-> rows[k].id]

Counted(index, id) ==
    LET sub  == Subtree(index, id) \cap Paths(index)
        dirs == {q \in sub : index.nodes[q].kind = "dir"
                              \/ Len(index.nodes[q].children) >= 1}
    IN  [totalNodes |-> Cardinality(sub),
         totalFiles |-> Cardinality(sub \ dirs),
         totalDirs  |-> Cardinality(dirs),
         ignored    |-> Cardinality({q \in sub : index.nodes[q].meta.status = "ignored"}),
         skipped    |-> Cardinality({q \in sub : index.nodes[q].meta.status = "skipped"})]

\* C24: for a tree-shaped index, computeSubtreeStats maps every node to the
\* counts over its subtree, itself included: the number of nodes, of nodes
\* with kind dir or a child, of the other nodes, of ignored nodes and of
\* skipped nodes.
C24_SubtreeStatsExact ==
    (activeIndex # None /\ IsTree(activeIndex[1].nodes)) =>
        LET stats == subtreeStats
        IN  /\ DOMAIN stats = Paths(activeIndex[1])
            /\ \A id \in Paths(activeIndex[1]) :
                  stats[id] = Counted(activeIndex[1], id)

\* A tree of the root, src with the ignored Makefile, and the skipped
\* node_modules.
C24_Witness ==
    /\ activeIndex # None
    /\ IsTree(activeIndex[1].nodes)
    /\ Paths(activeIndex[1]) = {ROOT_ID, Src, Makefile, NodeModules}
    /\ subtreeStats[ROOT_ID] = [totalNodes |-> 4, totalFiles |-> 1, totalDirs |-> 3,
                                ignored |-> 1, skipped |-> 1]
    /\ subtreeStats[Src].totalNodes = 2

\* The ids that a children list of the index names and the map lacks.
Dangling(index) ==
    {c \in UNION {{index.nodes[q].children[k] :
                      k \in 1..Len(index.nodes[q].children)} : q \in Paths(index)} :
        c \notin Paths(index)}

\* C25: with a children list that names an id the map lacks,
\* computeSubtreeStats completes with an entry for every node of the map,
\* and every entry counts the nodes of the map below the node and nothing
\* for the dangling id.
C25_DanglingChildSkipped ==
    (activeIndex # None /\ Dangling(activeIndex[1]) # {}) =>
        LET stats == subtreeStats
        IN  /\ DOMAIN stats = Paths(activeIndex[1])
            /\ \A id \in Paths(activeIndex[1]) :
                  stats[id] = Counted(activeIndex[1], id)

\* src lists the missing src/lib before src/main.go: src counts itself
\* and src/main.go, the root one node more.
C25_Witness ==
    /\ activeIndex # None
    /\ Dangling(activeIndex[1]) = {SrcLib}
    /\ activeIndex[1].nodes[Src].children = <<SrcLib, MainGo>>
    /\ subtreeStats[Src].totalNodes = 2
    /\ subtreeStats[ROOT_ID].totalNodes = 3
    /\ subtreeStats[ROOT_ID].skipped = 1

\* The rows of the list and the ids they show.
RowIds == LET rows == visibleNodes IN {rows[k].id : k \in 1..Len(rows)}

\* A search is active: the search text holds more than blanks.
SearchActive == \E k \in 1..Len(search) : search[k] # " "

\* The search text between its first and its last character that is no blank.
Needle ==
    LET solid == {k \in 1..Len(search) : search[k] # " "}
    IN  IF solid = {} THEN <<>>
        ELSE SubSeq(search, CHOOSE k \in solid : \A j \in solid : k <= j,
                            CHOOSE k \in solid : \A j \in solid : j <= k)

SameLetter(c, d) ==
    c = d \/ \E j \in 1..26 : {c, d} = {UpperCase[j], LowerCase[j]}

\* The path of the node contains the search text, whatever the case.
MatchVisible(node) ==
    LET str == pathString(node.path)
    IN  \E off \in 0..(Len(str) - Len(Needle)) :
            \A j \in 1..Len(Needle) : SameLetter(str[off + j], Needle[j])

SelfVisible(node) ==
    \/ showExcluded
    \/ node.meta.status = "included"
    \/ ("statusB" \in DOMAIN node.meta /\ node.meta.statusB = "included")

\* What a node shows on its own account.
OwnVisible(node) == IF SearchActive THEN MatchVisible(node) ELSE SelfVisible(node)

\* The nodes above id: those that have it in their subtree.
Above(index, id) ==
    {a \in Paths(index) \ {id} : id \in Subtree(index, a)}

\* C26: in buildVisibleList every node reachable from the root is visible
\* exactly when it, or a node below it, is visible on its own account: by
\* its path containing the search when a search is active, and otherwise
\* by showExcluded or an included status or statusB.  This is the solution
\* of "own account, or at least one child is visible".
C26_VisibleIffOwnOrChild ==
    activeIndex # None =>
        LET shown == activeIndex[1]
        IN  \A id \in Subtree(shown, shown.rootId) \cap Paths(shown) :
                computeVisible(viewEnv, shown.nodes[id])
                    = \E d \in Subtree(shown, id) \cap Paths(shown) :
                          OwnVisible(shown.nodes[d])

\* showExcluded off and no search: src/main.go, ignored in A and included
\* in B, is visible by its statusB and makes src, which has no status,
\* visible.
C26_Witness ==
    /\ activeIndex # None
    /\ compareMode
    /\ ~showExcluded
    /\ MainGo \in Subtree(activeIndex[1], ROOT_ID)
    /\ activeIndex[1].nodes[MainGo].meta.status = "ignored"
    /\ activeIndex[1].nodes[MainGo].meta.statusB = "included"
    /\ activeIndex[1].nodes[Src].meta.status = "unknown"
    /\ ~SearchActive
    /\ computeVisible(viewEnv, activeIndex[1].nodes[Src])
    /\ computeVisible(viewEnv, activeIndex[1].nodes[MainGo])

\* C27: with an active search, every node reachable from the root whose
\* path matches the search is a row, and so is every ancestor of it below
\* the root, whatever their status, showExcluded and the expanded set.
C27_SearchRevealsMatches ==
    (activeIndex # None /\ SearchActive) =>
        LET shown == activeIndex[1]
            rowIds == RowIds
        IN  \A id \in Subtree(shown, ROOT_ID) \ {ROOT_ID} :
                MatchVisible(shown.nodes[id]) =>
                    /\ id \in rowIds
                    /\ Above(shown, id) \ {ROOT_ID} \subseteq rowIds

\* The search "x.go " with showExcluded off and only the root expanded:
\* src/lib/x.go is a row, and so are src and src/lib, which have no status.
C27_Witness ==
    /\ activeIndex # None
    /\ search = <<"x", ".", "g", "o", " ">>
    /\ ~showExcluded
    /\ expandedIds = {ROOT_ID}
    /\ Deep \in Subtree(activeIndex[1], ROOT_ID)
    /\ activeIndex[1].nodes[Src].meta.status = "unknown"
    /\ {Src, SrcLib, Deep} \subseteq RowIds

\* C28: a node is a row only if it is visible on its own account or has a
\* descendant that is: a visible node does not bring its siblings or their
\* descendants into the list.
C28_NoLeakAcrossSiblings ==
    activeIndex # None =>
        LET shown == activeIndex[1]
        IN  \A id \in RowIds :
                \E d \in Subtree(shown, id) \cap Paths(shown) :
                    OwnVisible(shown.nodes[d])

\* showExcluded off, no search, src expanded: the included src/main.go is
\* a row and its ignored sibling src/Makefile is not.
C28_Witness ==
    /\ activeIndex # None
    /\ ~showExcluded
    /\ ~SearchActive
    /\ {MainGo, Makefile} \subseteq Subtree(activeIndex[1], ROOT_ID)
    /\ Src \in expandedIds
    /\ MainGo \in RowIds
    /\ Makefile \notin RowIds
    /\ activeIndex[1].nodes[Makefile].meta.status = "ignored"

C30_DimmedExactly ==
    activeIndex # None =>
        LET shown == activeIndex[1]
            rows == visibleNodes
        IN  \A k \in 1..Len(rows) :
                rows[k].dimmed
                    = (/\ showExcluded
                       /\ shown.nodes[rows[k].id].meta.status
                             \in {"ignored", "skipped"})

\* With showExcluded on, the rows of the ignored src/Makefile and of the
\* skipped node_modules are dimmed and the row of src is not.
C30_Witness ==
    /\ activeIndex # None
    /\ showExcluded
    /\ LET rows == visibleNodes
       IN  \E a, b, c \in 1..Len(rows) :
             /\ rows[a].id = Makefile /\ rows[a].dimmed
             /\ rows[b].id = NodeModules /\ rows[b].dimmed
             /\ rows[c].id = Src /\ ~rows[c].dimmed
    /\ activeIndex[1].nodes[Makefile].meta.status = "ignored"
    /\ activeIndex[1].nodes[NodeModules].meta.status = "skipped"

----------------------------------------------------------------------------
(* The scanner (Go, package main): walkTrace walks the folder with         *)
(* ffs.Walk and writes the trace that the UI reads.  The trace is on       *)
(* (--trace): without it out.emit writes nothing.                          *)

\* One name in two spellings: its last letter decomposed (e, U+0301) and
\* composed (U+00E9).
Decomposed == "cafe+U0301"

Composed == "caf+U00E9"

\* The folder that is walked.
StFolder == <<".stfolder">>

TempFile == <<".syncthing.a.tmp">>

Dec == <<Decomposed>>

DecG == <<Decomposed, "g">>

Comp == <<Composed>>

CompF == <<Composed, "f">>

BadName == <<"0xFF">>

\* The order in which ffs.Walk(".", walkFn) visits the folder: a directory
\* before what it holds, the names of a directory in byte order.
WalkOrder == <<ROOT_ID, StFolder, TempFile, Dec, DecG, Comp, CompF, BadName>>

Folder == {WalkOrder[k] : k \in 1..Len(WalkOrder)}

\* What Lstat tells of a path of the folder.
TypeOf(path) ==
    IF path \in {ROOT_ID, StFolder, Dec, Comp} THEN "dir"
    ELSE IF path = DecG THEN "symlink"
    ELSE "file"

\* The err of a call of walkFn, and of Lstat.
WalkErrors == {"nil", "denied", "notexist"}

\* filepath.Join(parent, name) and the test "parent is a prefix directory
\* of path" of strings.TrimPrefix(path, parent + separator).
Join(parent, name) == IF name = "" THEN parent ELSE Append(parent, name)

IsUnder(path, parent) ==
    /\ Len(parent) < Len(path)
    /\ SubSeq(path, 1, Len(parent)) = parent

\* fs.IsParent(path, parent).
IsParent(path, parent) ==
    /\ parent # path
    /\ (parent = ROOT_ID \/ IsUnder(path, parent))

\* utf8.ValidString, fs.IsTemporary and fs.IsInternal.
ValidString(path) == \A k \in 1..Len(path) : path[k] # "0xFF"

IsTemporary(path) == path[Len(path)] = ".syncthing.a.tmp"

IsInternal(path) == path[1] \in {".stfolder", ".stignore", ".stversions"}

\* norm.NFC.String and norm.NFD.String of one name.
NFC(name) == IF name = Decomposed THEN Composed ELSE name

NFD(name) == IF name = Composed THEN Decomposed ELSE name

\* normalizePath of the scanner (lines 593-598).
normalizePathOf(platform, path) ==
    IF platform = "darwin" THEN [k \in 1..Len(path) |-> NFD(path[k])]
    ELSE [k \in 1..Len(path) |-> NFC(path[k])]

\* lookupActualPath (lines 587-592).
lookupActualPath(lookup, normalized) ==
    IF normalized \in DOMAIN lookup THEN lookup[normalized] ELSE normalized

\* What the matcher answers: match.IsIgnored(), match.CanSkipDir() and the
\* pattern.
NoMatch == [ignored |-> FALSE, canSkip |-> FALSE, pat |-> ""]

KeptPattern == [ignored |-> TRUE, canSkip |-> FALSE, pat |-> "caf*"]

SkippedPattern == [ignored |-> TRUE, canSkip |-> TRUE, pat |-> "(?d)caf*"]

MatchResults == {NoMatch, KeptPattern, SkippedPattern}

MatchWithPattern(m, normPath) ==
    IF normPath \in DOMAIN m THEN m[normPath] ELSE NoMatch

\* The normalized paths the patterns of the folder can match.
Matched(platform) ==
    {normalizePathOf(platform, path) : path \in {Dec, DecG, Comp, CompF}}

\* The state walkFn reads and writes: the written events and the captured
\* variables of walkTrace.
ScanState ==
    [emitted |-> written, ignoredParent |-> ignoredParent,
     normalizedLookup |-> normalizedLookup,
     included |-> included, ignored |-> ignored]

\* out.emit (lines 81-90); an empty field is left out of the line.
emit(st, event, path, kind, reason, pattern) ==
    [st EXCEPT !.emitted =
        Append(@, Rec(event, path, kind, reason,
                      IF pattern = "" THEN Undef ELSE pattern))]

itemEntry(path, kind, reason) == [Path |-> path, Kind |-> kind, Reason |-> reason]

addIgnored(st, path, reason) ==
    [st EXCEPT !.ignored = Append(@, itemEntry(path, "", reason))]

addIncluded(st, path, kind) ==
    [st EXCEPT !.included = Append(@, itemEntry(path, kind, ""))]

\* formatPatternReason (lines 600-605).
formatPatternReason(pattern) ==
    IF pattern = "" THEN <<"pattern">> ELSE <<"pattern: ", pattern>>

\* handleInclude (lines 556-585).
handleInclude(st, path, info) ==
    IF info = "symlink"
    THEN IF build = "windows"
         THEN addIgnored(emit(st, "ignore", path, Undef, "symlink-windows", ""),
                         path, "symlink-windows")
         ELSE IF rc.includeMode \in {"all", "files"}
              THEN emit(addIncluded(st, path, "symlink"),
                        "include", path, "symlink", Undef, "")
              ELSE st
    ELSE IF info = "dir"
    THEN IF rc.includeMode = "all"
         THEN emit(addIncluded(st, path, "dir"), "include", path, "dir", Undef, "")
         ELSE st
    ELSE IF info = "file"
    THEN emit(addIncluded(st, path, "file"), "include", path, "file", Undef, "")
    ELSE addIgnored(emit(st, "ignore", path, Undef, "unsupported", ""),
                    path, "unsupported")

\* What a call of walkFn leaves: the state and the error it returns.
Return(st, err) == [st |-> st, err |-> err]

RECURSIVE includeBelow(_, _, _, _, _)

\* The loop of lines 535-546 from position k of rel on (position 0 is the
\* name ""); Lstat fails on the paths of denied and on what is not there.
includeBelow(st, rel, k, denied, skip) ==
    IF k > Len(rel) THEN Return([st EXCEPT !.ignoredParent = NoPath], "nil")
    ELSE LET parent     == IF k = 0 THEN Join(st.ignoredParent, "")
                           ELSE Join(st.ignoredParent, rel[k])
             actualPath == lookupActualPath(st.normalizedLookup, parent)
             moved      == [st EXCEPT !.ignoredParent = parent]
         IN  IF actualPath \in denied \/ actualPath \notin Folder
             THEN Return(addIgnored(emit(moved, "error", actualPath, Undef, Undef, ""),
                                    actualPath, "error"),
                         skip)
             ELSE includeBelow(handleInclude(moved, actualPath, TypeOf(actualPath)),
                               rel, k + 1, denied, skip)

\* The skip event of lines 496-502.
skipEvent(st, path, pat) == emit(st, "skip", path, Undef, "pattern", pat)

\* walkFn from the match on (lines 483-548): st holds what lines 429-482
\* have written.
walkFnMatch(st, path, normPath, info, err, denied, skip) ==
    LET match == MatchWithPattern(matcher, normPath)
    IN  IF match.ignored
        THEN LET told == addIgnored(emit(st, "ignore", path, Undef, "pattern", match.pat),
                                    path, formatPatternReason(match.pat))
             IN  IF err # "nil" \/ match.canSkip \/ info = "symlink"
                 THEN Return(IF info = "dir" THEN skipEvent(told, path, match.pat)
                             ELSE told,
                             skip)
                 ELSE Return(IF /\ info = "dir"
                                /\ \/ told.ignoredParent = NoPath
                                   \/ ~IsParent(normPath, told.ignoredParent)
                             THEN [told EXCEPT !.ignoredParent = normPath]
                             ELSE told,
                             "nil")
        ELSE IF err # "nil"
        THEN Return(IF err # "notexist"
                    THEN addIgnored(emit(st, "error", path, Undef, Undef, ""),
                                    path, "error")
                    ELSE st,
                    skip)
        ELSE IF path = ROOT_ID THEN Return(st, "nil")
        ELSE IF st.ignoredParent = NoPath
        THEN Return(handleInclude(st, path, info), "nil")
        ELSE IF ~IsUnder(normPath, st.ignoredParent)
        THEN Return(handleInclude([st EXCEPT !.ignoredParent = NoPath], path, info),
                    "nil")
        ELSE includeBelow(st,
                          SubSeq(normPath, Len(st.ignoredParent) + 1, Len(normPath)),
                          0, denied, skip)

\* The enter event of lines 440-442.
enterFirst(st, path, info) ==
    IF info = "dir" THEN emit(st, "enter", path, Undef, Undef, "") ELSE st

\* walkFn (lines 429-548) on a context that is not done.  info is "nil"
\* or what Lstat told of the path.
walkFn(st, path, info, err, denied) ==
    IF path = EmptyStr THEN Return(st, "nil")
    ELSE LET entered == enterFirst(st, path, info)
             skip    == IF info = "dir" THEN "SkipDir" ELSE "nil"
         IN  IF ~ValidString(path)
             THEN Return(addIgnored(emit(entered, "error", path, Undef, Undef, ""),
                                    path, "invalid-utf8"),
                         skip)
             ELSE IF IsTemporary(path)
             THEN Return(addIgnored(emit(entered, "temp", path, Undef, Undef, ""),
                                    path, "temporary"),
                         "nil")
             ELSE IF IsInternal(path)
             THEN Return(addIgnored(emit(entered, "ignore", path, Undef, "internal", ""),
                                    path, "internal"),
                         skip)
             ELSE LET normPath == normalizePathOf(build, path)
                  IN  IF normPath # path
                      THEN LET noted ==
                                   emit([entered EXCEPT !.normalizedLookup =
                                            [n \in DOMAIN @ \cup {normPath} |->
                                                IF n = normPath THEN path ELSE @[n]]],
                                        "normalize", path, Undef, Undef, "")
                           IN  IF ~rc.autoNormalize
                               THEN Return(addIgnored(noted, path, "normalization-disabled"),
                                           skip)
                               ELSE walkFnMatch(noted, path, normPath, info, err,
                                                denied, skip)
                      ELSE walkFnMatch(entered, path, normPath, info, err, denied, skip)

\* The paths of a list that are not below dir.
Outside(paths, dir) ==
    SelectSeq(paths, LAMBDA p : dir # ROOT_ID /\ ~IsUnder(p, dir))

\* What a call of walkFn assigns.
Returned(r) ==
    /\ written' = r.st.emitted
    /\ ignoredParent' = r.st.ignoredParent
    /\ normalizedLookup' = r.st.normalizedLookup
    /\ included' = r.st.included
    /\ ignored' = r.st.ignored

\* ffs.Walk calls walkFn for the next path (line 551): with the info of
\* Lstat and no error, or with no info and the error of Lstat.  A
\* directory is listed next when walkFn returned nil for it.
walkNext ==
    /\ walking # <<>>
    /\ \E err \in WalkErrors, denied \in {{}, {Dec}, {Comp}} :
           LET path == Head(walking)
               info == IF err = "nil" THEN TypeOf(path) ELSE "nil"
               r    == walkFn(ScanState, path, info, err, denied)
               down == info = "dir" /\ r.err = "nil"
           IN  /\ Returned(r)
               /\ walking' = IF down THEN Tail(walking)
                             ELSE Outside(Tail(walking), path)
               /\ reading' = IF down THEN path ELSE NoPath
    /\ UNCHANGED <<worker, loaded, view, matcher, rc, build>>

\* ffs.Walk cannot list the directory it entered, and calls walkFn for it
\* once more, with the error.
walkDirNamesFails ==
    /\ reading # NoPath
    /\ \E denied \in {{}, {Dec}, {Comp}} :
           Returned(walkFn(ScanState, reading, "dir", "denied", denied))
    /\ walking' = Outside(walking, reading)
    /\ reading' = NoPath
    /\ UNCHANGED <<worker, loaded, view, matcher, rc, build>>

\* The context is done (lines 430-434): walkFn returns ctx.Err() and the
\* walk ends.
walkCancelled ==
    /\ walking # <<>>
    /\ walking' = <<>>
    /\ reading' = NoPath
    /\ UNCHANGED <<worker, loaded, view, written, ignoredParent, normalizedLookup,
                   included, ignored, matcher, rc, build>>

InitScan ==
    /\ inbox = <<>>
    /\ pc = "idle"
    /\ request = "none"
    /\ fileLabel = "A"
    /\ held = None
    /\ lines = <<>>
    /\ total = 0
    /\ i = 0
    /\ nodes = NoNodes
    /\ counts = ZeroCounts
    /\ firstPass = NoNodes
    /\ posted = <<>>
    /\ indexA = None
    /\ indexB = None
    /\ error = None
    /\ progress = None
    /\ compareMode = FALSE
    /\ fileA = FALSE
    /\ fileB = FALSE
    /\ expandedIds = {}
    /\ showExcluded = TRUE
    /\ search = <<>>
    /\ orderBy = "scan"
    /\ costMetric = "total"
    /\ awaiting = {}
    /\ submitted = 0
    /\ written = <<>>
    /\ ignoredParent = NoPath
    /\ normalizedLookup = <<>>
    /\ included = <<>>
    /\ ignored = <<>>
    /\ build \in {"linux", "windows", "darwin"}
    /\ matcher \in [Matched(build) -> MatchResults]
    /\ rc \in [autoNormalize : BOOLEAN, includeMode : {"all", "files"}]
    /\ walking = WalkOrder
    /\ reading = NoPath

NextScan ==
    \/ walkNext
    \/ walkDirNamesFails
    \/ walkCancelled

SpecScan == InitScan /\ [][NextScan]_vars

----------------------------------------------------------------------------
\* A child is directory-like: its kind is dir, its status is skipped or it
\* has a child of its own.
DirLike(index, id) ==
    \/ index.nodes[id].kind = "dir"
    \/ index.nodes[id].meta.status = "skipped"
    \/ Len(index.nodes[id].children) >= 1

\* The position of id in the list ids.
PositionIn(ids, id) == CHOOSE k \in 1..Len(ids) : ids[k] = id

\* What orderChildren returns for the children of the node id of the index
\* shown, with the order and the metric picked.
Ordered(id) ==
    orderChildren(activeIndex[1].nodes[id].children, activeIndex[1], orderBy,
                  subtreeStats, costMetric)

\* C31: under every order the children of a node come out with all
\* directory-like children before all file-like children, none lost and
\* none added; under the scan order each of the two groups keeps the order
\* the children list has.
C31_DirsBeforeFiles ==
    activeIndex # None =>
        LET shown == activeIndex[1]
        IN  \A id \in Paths(shown) :
                LET kids == shown.nodes[id].children
                    out  == Ordered(id)
                IN  /\ Len(out) = Len(kids)
                    /\ {out[k] : k \in 1..Len(out)} = {kids[k] : k \in 1..Len(kids)}
                    /\ \A p, q \in 1..Len(out) :
                          (p < q /\ DirLike(shown, out[q])) => DirLike(shown, out[p])
                    /\ orderBy = "scan" =>
                          \A p, q \in 1..Len(out) :
                              (p < q /\ DirLike(shown, out[p]) = DirLike(shown, out[q]))
                                => PositionIn(kids, out[p]) < PositionIn(kids, out[q])

\* The scan order of the root's children b.txt, c, a, with b.txt a file:
\* the rows are c, a, b.txt.
C31_Witness ==
    /\ activeIndex # None
    /\ orderBy = "scan"
    /\ activeIndex[1].nodes[ROOT_ID].children = <<BTxt, DirC, DirA>>
    /\ ~DirLike(activeIndex[1], BTxt)
    /\ Ordered(ROOT_ID) = <<DirC, DirA, BTxt>>
    /\ RowIdsInOrder = <<DirC, DirA, BTxt>>

\* The metric picked, for the node id: the number of nodes of its subtree
\* or the number of ignored nodes among them, by counting.
CostOf(index, id) ==
    IF costMetric = "ignored" THEN Counted(index, id).ignored
    ELSE Counted(index, id).totalNodes

\* C32: under the cost order, within the directory-like children and
\* within the file-like children of a node a child that comes first has no
\* smaller cost in the metric picked, and of two children of equal cost
\* the one that comes first has the alphabetically earlier name.
C32_CostDescendingThenName ==
    (activeIndex # None /\ orderBy = "cost") =>
        LET shown == activeIndex[1]
        IN  \A id \in Paths(shown) :
                LET out == Ordered(id)
                IN  \A p, q \in 1..Len(out) :
                        (p < q /\ DirLike(shown, out[p]) = DirLike(shown, out[q])) =>
                            /\ CostOf(shown, out[p]) >= CostOf(shown, out[q])
                            /\ CostOf(shown, out[p]) = CostOf(shown, out[q]) =>
                                  localeCompare(shown.nodes[out[p]].name,
                                                shown.nodes[out[q]].name) < 0

\* The siblings b.txt (a file), a (an empty directory) and c (a directory
\* with a descendant), in this order in the index, come out as c, a, b.txt
\* under the cost order by total nodes.
C32_Witness ==
    /\ activeIndex # None
    /\ orderBy = "cost"
    /\ costMetric = "total"
    /\ activeIndex[1].nodes[ROOT_ID].children = <<BTxt, DirA, DirC>>
    /\ CDGo \in Paths(activeIndex[1])
    /\ activeIndex[1].nodes[BTxt].kind = "file"
    /\ Ordered(ROOT_ID) = <<DirC, DirA, BTxt>>
    /\ RowIdsInOrder = <<DirC, DirA, BTxt>>

\* The step posts a message of the worker: the message.
Posting == Len(posted') = Len(posted) + 1

\* C33: while the worker handles a compare request it posts no result of
\* one side; it posts a result-compare message in the very step that ends
\* the handling, when the index of A is held and the loop over B has read
\* its last line, and the message carries the held index of A and the
\* index of B; and the App has either both indices or none.
C33_CompareResultOnceBothDone ==
    [][/\ (Posting /\ request = "parse-compare") =>
            LET msg == posted'[Len(posted')]
            IN  /\ msg.type # "result"
                /\ msg.type = "result-compare" =>
                      /\ pc = "loop" /\ pc' = "returned"
                      /\ fileLabel = "B" /\ i = total
                      /\ held # None
                      /\ msg.indexA = held[1]
                      /\ msg.indexB = [rootId |-> ROOT_ID, nodes |-> nodes,
                                        counts |-> counts]
       /\ (request = "parse-compare" /\ pc # "returned" /\ pc' = "returned") =>
            (Posting /\ posted'[Len(posted')].type = "result-compare")
       /\ (indexA' = None) = (indexB' = None)]_vars

\* The worker has returned from a compare request and its one message,
\* with two different indices, is on its way to the App.
C33_Witness ==
    /\ request = "parse-compare"
    /\ pc = "returned"
    /\ Len(posted) >= 1
    /\ posted[Len(posted)].type = "result-compare"
    /\ posted[Len(posted)].indexA # posted[Len(posted)].indexB
    /\ Cardinality({k \in 1..Len(posted) : posted[k].type = "result-compare"}) = 1

\* Nothing is in flight: every request was received, no text is awaited,
\* no loop runs and the App has received every message.
Settled ==
    /\ inbox = <<>>
    /\ awaiting = {}
    /\ pc # "loop"
    /\ posted = <<>>

\* The index the App shows for the file with these lines.
IndexOf(ls) ==
    deserializeIndex([rootId |-> ROOT_ID, nodes |-> parseJSONL(ls).nodes,
                      counts |-> parseJSONL(ls).counts])

\* C34: when files were dropped one after the other and nothing is in
\* flight any more, the index shown is the one of the file dropped last.
C34_LatestRequestShown ==
    (Settled /\ submitted >= 1) =>
        indexA = Some(IndexOf(FileText(submitted)))

\* The counts with one more in the field c.
OneMore(cs, c) == [cs EXCEPT ![c] = @ + 1]

\* C35: every line the loop reads changes the counts by its event tag
\* alone: an applied include adds one to included, an applied skip one to
\* skipped, an applied ignore or error one to ignored; an enter, a
\* normalize, a summary and a line that is no record add nothing; and no
\* step makes a count smaller.
C35_CountsPerEventTag ==
    [][/\ ReadStep =>
            LET ln == LastRead
            IN  /\ (Applied(ln) /\ ln.event = "include") =>
                      counts' = OneMore(counts, "included")
                /\ (Applied(ln) /\ ln.event = "skip") =>
                      counts' = OneMore(counts, "skipped")
                /\ (Applied(ln) /\ ln.event \in {"ignore", "error"}) =>
                      counts' = OneMore(counts, "ignored")
                /\ (ln.form # "record" \/ ln.event \in {"enter", "normalize", "summary"}) =>
                      counts' = counts
       /\ counts'.included >= counts.included
       /\ counts'.ignored >= counts.ignored
       /\ counts'.skipped >= counts.skipped]_vars

\* src/main.go was included, then hit by an error and then skipped: one
\* node, and one in each count.
C35_Witness ==
    /\ Len(lines) = 3 /\ i = 3
    /\ lines[1].event = "include" /\ lines[2].event = "error" /\ lines[3].event = "skip"
    /\ counts = [included |-> 1, ignored |-> 1, skipped |-> 1]
    /\ nodes[MainGo].meta.status = "skipped"

\* The path without its last segment; the root for a path of one segment.
Stripped(path) ==
    IF Len(path) = 1 THEN ROOT_ID ELSE SubSeq(path, 1, Len(path) - 1)

\* C36: in every state of the building of an index, every id of a children
\* list is there once, is a key of the node map, and is listed by the node
\* whose id is the path without its last segment and by no other node.
C36_ChildrenWellFormed ==
    \A q \in DOMAIN nodes :
        \A k \in 1..Len(nodes[q].children) :
            LET child == nodes[q].children[k]
            IN  /\ Occurrences(nodes[q].children, child) = 1
                /\ child \in DOMAIN nodes
                /\ q = Stripped(child)
                /\ ParentsOf(nodes, child) = {Stripped(child)}

\* In the middle of the loop, after two events on src/main.go and one on
\* src/lib/x.go: src lists src/main.go once and src/lib lists src/lib/x.go.
C36_Witness ==
    /\ pc = "loop"
    /\ Len(lines) = 3
    /\ Cardinality({k \in 1..3 : Applied(lines[k]) /\ lines[k].path = MainGo}) = 2
    /\ Deep \in DOMAIN nodes
    /\ nodes[Src].children = <<MainGo>>
    /\ nodes[Stripped(Deep)].children = <<Deep>>

\* The node, or a node below it, is visible on its own account.
Visible(index, id) ==
    \E d \in Subtree(index, id) \cap Paths(index) : OwnVisible(index.nodes[d])

\* C37: with no search active, a node reachable from the root, other than
\* the root, is a row exactly when it is visible and each of its ancestors
\* other than the root is in the expanded set.
C37_RowIffVisibleAndUnfolded ==
    (activeIndex # None /\ ~SearchActive) =>
        LET shown  == activeIndex[1]
            rowIds == RowIds
        IN  \A id \in (Subtree(shown, shown.rootId) \cap Paths(shown)) \ {shown.rootId} :
                (id \in rowIds)
                    = (/\ Visible(shown, id)
                       /\ Above(shown, id) \ {shown.rootId} \subseteq expandedIds)

\* showExcluded off and the stored expanded set {src/lib}: src is a row,
\* and src/lib/x.go, visible and with src/lib expanded, is none because src
\* is folded; the ignored src/Makefile is not visible.
C37_Witness ==
    /\ activeIndex # None
    /\ ~SearchActive
    /\ ~showExcluded
    /\ expandedIds = {SrcLib}
    /\ {Src, SrcLib, Deep} \subseteq Subtree(activeIndex[1], ROOT_ID)
    /\ Visible(activeIndex[1], Deep)
    /\ RowIds = {Src}


\* The ids of the rows shown at depth 0.
TopRowIds == LET rows == visibleNodes IN {rows[k].id : k \in {j \in 1..Len(rows) : rows[j].depth = 0}}

\* C38: the root is never a row of the list of buildVisibleList, and the
\* rows at depth 0 are the visible children of the root, whether or not the
\* root is in the expanded set and whether or not the root is visible.
C38_RootNeverARow ==
    (activeIndex # None /\ ~SearchActive) =>
        LET shown == activeIndex[1]
            root  == shown.nodes[shown.rootId]
        IN  /\ shown.rootId \notin RowIds
            /\ TopRowIds = {c \in {root.children[k] : k \in 1..Len(root.children)} \cap Paths(shown) :
                                Visible(shown, c)}

C38_Witness == activeIndex # None /\ ~SearchActive /\ ROOT_ID \notin expandedIds
    /\ ~showExcluded /\ Visible(activeIndex[1], ROOT_ID)
    /\ TopRowIds = {Src} /\ ROOT_ID \notin RowIds

\* The nodes of index that list id among their children.
ListedBy(index, id) ==
    {p \in Paths(index) : \E k \in 1..Len(index.nodes[p].children) :
                              index.nodes[p].children[k] = id}

\* C39: the row list of buildVisibleList is a pre-order listing of the
\* tree: no node is a row twice, a row whose parent is not the root comes
\* after the row of its parent and is one deeper than it, and the rows of
\* the nodes below a node follow its row with no other row in between.
C39_RowsInPreOrder ==
    activeIndex # None =>
        LET shown == activeIndex[1]
            rows  == visibleNodes
            at    == 1..Len(rows)
        IN  /\ \A k, j \in at : rows[k].id = rows[j].id => k = j
            /\ \A k \in at : \A p \in ListedBy(shown, rows[k].id) \ {shown.rootId} :
                   \E j \in 1..(k - 1) : /\ rows[j].id = p
                                         /\ rows[k].depth = rows[j].depth + 1
            /\ \A k \in at :
                   LET below == {j \in at : rows[j].id \in Subtree(shown, rows[k].id)}
                   IN  below = k..(k + Cardinality(below) - 1)

C39_Witness == activeIndex # None /\ SearchActive /\ expandedIds = {ROOT_ID}
    /\ LET rows == visibleNodes
       IN  /\ Len(rows) = 3
           /\ rows[1].id = Src /\ rows[1].depth = 0
           /\ rows[2].id = SrcLib /\ rows[2].depth = 1
           /\ rows[3].id = Deep /\ rows[3].depth = 2

\* The positions of the trace with an event for path.
EventsOn(path) == {k \in 1..Len(written) : written[k].path = path}

\* The events by which updateMeta sets the status of the node.
Decisions == {"include", "ignore", "skip", "error"}

\* For every directory that is entered, the enter event is the first
\* event of its path.
EnterIsFirst ==
    \A k \in 1..Len(written) :
        written[k].event = "enter" =>
            written[CHOOSE j \in EventsOn(written[k].path) :
                        \A n \in EventsOn(written[k].path) : j <= n].event = "enter"

\* A skip event is for a directory and follows directly on the ignore
\* event of the same path with the same pattern.
SkipFollowsIgnore ==
    \A k \in 1..Len(written) :
        written[k].event = "skip" =>
            /\ TypeOf(written[k].path) = "dir"
            /\ k > 1
            /\ written[k - 1].event = "ignore"
            /\ written[k - 1].path = written[k].path
            /\ written[k - 1].pattern = written[k].pattern

\* The last decision for a directory with a skip event is the skip.
SkipIsLastDecision ==
    \A k \in 1..Len(written) :
        written[k].event = "skip" =>
            \A n \in EventsOn(written[k].path) :
                (n > k /\ written[n].event \in Decisions) => written[n].event = "skip"

\* C40: in the trace of the scanner the enter event of a directory is the
\* first event of its path, a skip event is written only for a directory
\* and only directly after the ignore event of the same path with the same
\* pattern, and the last decision for a pruned directory is skip.
C40_EnterFirstSkipLast ==
    /\ EnterIsFirst
    /\ SkipFollowsIgnore
    /\ SkipIsLastDecision


====
